---------------------------- MODULE Spec2Model ----------------------------
(***************************************************************************)
(* A model of the cpptester library (src/tester.h, namespace TesterLib):   *)
(* the comparison chain CommonLib::isEqual, the rendering chain            *)
(* CommonLib::toString, the positional diff StringCompare::calculateDiff,  *)
(* the sequence runners TestRange::RunAllArgs and                          *)
(* TestTwoVector::RunAllArgs, the result aggregation of class Tester       *)
(* (testOne, addResult, test, testThreadSafe) under several threads, and   *)
(* the entry points of Tester (testOne, testFloat, testType, testRange,    *)
(* testException, addMessage, setStatus, updateSetting, printResults,      *)
(* getJSON, test) called by one thread, and CommonLib::escapeString.       *)
(*                                                                         *)
(* Strings are sequences of one-character strings.  Time stamps and the    *)
(* text written to std::cout are left out: no operation modelled here      *)
(* reads them back.                                                        *)
(***************************************************************************)
EXTENDS Integers, Sequences, FiniteSets, TLC

VARIABLES
    \* ---- CommonLib::isEqual / CommonLib::toString, called on their own
    cmpPair,          \* the two values handed to isEqual, with what their types offer
    cmpAlias,         \* the throwOnAlias argument
    cmpPc,            \* "start", "isEqual" or "toString": which call has been made
    cmpOut,           \* what the call gave back
    \* ---- StringCompare
    expectedStr, actualStr, diffExpected, diffActual, diffs,
    diffPc,           \* position in calculateDiff
    diffI,            \* the loop variable i of calculateDiff
    \* ---- TestRange
    rng,              \* the TestRange object: from, to, expected, messages, results
    rngFn,            \* the callable under test: what it does for each index
    rngPc,            \* position in RunAllArgs
    rngLoop,          \* the locals i and index of RunAllArgs
    rngRet,           \* what RunAllArgs returned
    rngFirst,         \* what the first run returned, once the object is set up again
    \* ---- TestTwoVector
    tv,               \* the TestTwoVector object: actual, expected, messages, results
    tvFn,             \* the callable under test: what it does for each input value
    tvPc,             \* position in RunAllArgs
    tvI,              \* the loop variable i of RunAllArgs
    tvRet,            \* what RunAllArgs returned
    \* ---- Tester, shared by the threads
    tester,           \* the shared Tester: results, currentTestResult, groupNum, settingsMap
    resultMutex, testResultMutex, settingsMutex,   \* the owner of each mutex
    pc,               \* per thread: position in the operation it runs
    loc,              \* per thread: the locals of the operation it runs
    tempTester,       \* per thread: the Tester tempTester of test()
    calls,            \* per thread: the operations it has completed, with what they gave
    \* ---- Tester, used by one thread
    sq,               \* the Tester
    sqSub,            \* the delegated test that runs: its tempTester, what its callable
                      \* has called so far, and the position in test()
    sqCalls,          \* the calls made on sq so far, each with what it gave
    \* ---- CommonLib::escapeString
    escStr,           \* the string handed in
    escPc,            \* "call" before the function has run, "done" after
    escOut            \* the string returned

cmpVars   == <<cmpPair, cmpAlias, cmpPc, cmpOut>>
diffVars  == <<expectedStr, actualStr, diffExpected, diffActual, diffs, diffPc, diffI>>
rngVars   == <<rng, rngFn, rngPc, rngLoop, rngRet, rngFirst>>
tvVars    == <<tv, tvFn, tvPc, tvI, tvRet>>
tstVars   == <<tester, resultMutex, testResultMutex, settingsMutex, pc, loc,
               tempTester, calls>>
seqVars   == <<sq, sqSub, sqCalls>>
escVars   == <<escStr, escPc, escOut>>
vars      == <<cmpVars, diffVars, rngVars, tvVars, tstVars, seqVars, escVars>>

(***************************************************************************)
(* Bounds of the model.                                                    *)
(***************************************************************************)
MaxStrLen   == 2      \* longest text of a compared value
MaxDiffLen  == 4      \* longest string handed to StringCompare
MaxRange    == 3      \* a range holds at most MaxRange + 1 indices
MaxExpected == 2      \* longest expected sequence of a TestRange or TestTwoVector
MaxInputs   == 3      \* longest input sequence of a TestTwoVector
MaxOps      == 2      \* operations the threads issue on the shared Tester, in all
MaxAsserts  == 2      \* assertions the callable of test() issues
MaxTypeLen  == 2      \* longest sequence handed to testType
MaxSeqOps   == 2      \* calls made on the Tester one thread uses, those of a callable included
MaxTests    == 1      \* delegated tests run on the Tester one thread uses
MaxEscLen   == 3      \* longest string handed to escapeString

Alphabet == {"a", "b"}
NUL      == "\\0"     \* the terminator of a character literal

Min(x, y) == IF x < y THEN x ELSE y

SeqsUpTo(S, n) == UNION {[1..k -> S] : k \in 0..n}

(***************************************************************************)
(* VALUES.  A value handed to the library is described by what its type    *)
(* offers to the concepts of CommonLib:                                    *)
(*   kind "string": a std::string holding chars;                           *)
(*   kind "cstr"  : a character literal / const char*: chars is the memory *)
(*                  it points to, the text followed by the terminator;     *)
(*   kind "bool"  : a bool, b;                                             *)
(*   kind "obj"   : any other type.  stream says whether operator<< is     *)
(*                  offered and out is what it writes (an int writes its   *)
(*                  digits); hasToString and ts likewise for toString();   *)
(*   addr is the address of the by-value copy toString() receives.         *)
(***************************************************************************)
Texts == SeqsUpTo(Alphabet, MaxStrLen)

StringValue(t) == [kind |-> "string", chars |-> t]
CStrValue(t)   == [kind |-> "cstr", chars |-> t \o <<NUL>>]
BoolValue(b)   == [kind |-> "bool", b |-> b]

TextValues == {StringValue(t) : t \in Texts} \cup {CStrValue(t) : t \in Texts}
BoolValues == {BoolValue(b) : b \in BOOLEAN}
ObjValues  == [kind : {"obj"}, stream : BOOLEAN, hasToString : BOOLEAN,
               out : {<<"1">>, <<"2">>}, ts : {<<"1">>, <<"x">>}, addr : {"7", "8"}]
Values     == TextValues \cup BoolValues \cup ObjValues

\* An int, as the library sees it: streamable, no toString().
IntValue(n) == [kind |-> "obj", stream |-> TRUE, hasToString |-> FALSE,
                out |-> <<ToString(n)>>, ts |-> <<>>, addr |-> "7"]

\* The characters of raw up to the first terminator: what std::string(const char*)
\* and operator<<(const char*) read.
RECURSIVE UpToNul(_)
UpToNul(raw) ==
    IF raw = <<>> \/ Head(raw) = NUL THEN <<>>
    ELSE <<Head(raw)>> \o UpToNul(Tail(raw))

\* std::string(v) of the concept canBeStringCompared.
AsStdString(v) == IF v.kind = "cstr" THEN UpToNul(v.chars) ELSE v.chars

\* template parameters satisfying the concepts of tester.h
StringConvertible(v)        == v.kind \in {"string", "cstr"}
canBeStringCompared(a, e)   == StringConvertible(a) /\ StringConvertible(e)
oStreamInsertionAbility(v)  == \/ v.kind \in {"string", "cstr", "bool"}
                               \/ v.kind = "obj" /\ v.stream
hasToString(v)              == v.kind = "obj" /\ v.hasToString

\* What stream << from writes.  A bool is written as 1 or 0: toString() sets no
\* std::boolalpha on its stream.
StreamInsert(v) ==
    CASE v.kind = "string" -> v.chars
      [] v.kind = "cstr"   -> UpToNul(v.chars)
      [] v.kind = "bool"   -> IF v.b THEN <<"1">> ELSE <<"0">>
      [] OTHER             -> v.out

BoolLiteral(b) == IF b THEN <<"t", "r", "u", "e">> ELSE <<"f", "a", "l", "s", "e">>

\* CommonLib::toString
toString(from) ==
    IF oStreamInsertionAbility(from) THEN StreamInsert(from)
    ELSE IF from.kind = "bool" THEN BoolLiteral(from.b)
    ELSE IF hasToString(from) THEN from.ts
    ELSE <<"*", from.addr>>

(***************************************************************************)
(* A pair handed to isEqual: the two values and what the pair of types     *)
(* offers: hasOp / opRes, whether expected == actual compiles to a bool    *)
(* and what it gives; hasEq / eqRes, the same for actual.equals(expected). *)
(* Two bools always compare with the built-in ==.                          *)
(***************************************************************************)
Pair(a, e, hasOp, opRes, hasEq, eqRes) ==
    [actual |-> a, expected |-> e, hasOp |-> hasOp, opRes |-> opRes,
     hasEq |-> hasEq, eqRes |-> eqRes]

Pairs ==
    {Pair(a, e, ho, orr, he, er) :
        a \in Values, e \in Values, ho \in BOOLEAN, orr \in BOOLEAN,
        he \in BOOLEAN, er \in BOOLEAN}

WellTyped(p) ==
    /\ (p.actual.kind = "bool" /\ p.expected.kind = "bool")
          => (p.hasOp /\ ~p.hasEq /\ p.opRes = (p.actual.b = p.expected.b))
    /\ (p.actual.kind # "obj") => ~p.hasEq
    /\ ~p.hasOp => ~p.opRes
    /\ ~p.hasEq => ~p.eqRes

\* A plausible slip: the equals method tried before operator==.
isEqualStepEqualsFirst(p) ==
    IF canBeStringCompared(p.actual, p.expected) THEN "string"
    ELSE IF p.hasEq THEN "equals"
    ELSE IF p.hasOp THEN "operator"
    ELSE "fallback"

\* The branch of isEqual's if constexpr chain that a pair takes.
isEqualStep(p) ==
    IF canBeStringCompared(p.actual, p.expected) THEN "string"
    ELSE IF p.hasOp THEN "operator"
    ELSE IF p.hasEq THEN "equals"
    ELSE "fallback"

\* A plausible slip: the two character sequences compared as stored, terminator
\* included, instead of as std::string.
StringStepRaw(p) == p.expected.chars = p.actual.chars

\* std::string(expected) == std::string(actual)
StringStep(p) == AsStdString(p.expected) = AsStdString(p.actual)

\* A plausible slip: the alias error raised on every step.
AliasThrowsAnyStep(p, throwOnAlias, res) == throwOnAlias /\ res

\* The throw of the fallback branch.
AliasThrows(p, throwOnAlias, res) ==
    isEqualStep(p) = "fallback" /\ throwOnAlias /\ res

\* CommonLib::isEqual: [thrown |-> FALSE, value |-> the bool returned] or
\* [thrown |-> TRUE, what |-> "alias"] for the std::invalid_argument.
isEqual(p, throwOnAlias) ==
    LET step == isEqualStep(p)
        res  == CASE step = "string"   -> StringStep(p)
                  [] step = "operator" -> p.opRes
                  [] step = "equals"   -> p.eqRes
                  [] OTHER             -> toString(p.expected) = toString(p.actual)
    IN  IF AliasThrows(p, throwOnAlias, res)
        THEN [thrown |-> TRUE, what |-> "alias"]
        ELSE [thrown |-> FALSE, value |-> res]

(***************************************************************************)
(* isEqual and toString called on their own, on every pair of values.      *)
(***************************************************************************)
CmpOff ==
    /\ cmpPair = Pair(BoolValue(TRUE), BoolValue(TRUE), TRUE, TRUE, FALSE, FALSE)
    /\ cmpAlias = FALSE
    /\ cmpPc = "off"
    /\ cmpOut = [thrown |-> FALSE, value |-> FALSE]

CmpInit ==
    /\ cmpPair \in {p \in Pairs : WellTyped(p)}
    /\ cmpAlias \in BOOLEAN
    /\ cmpPc = "start"
    /\ cmpOut = [thrown |-> FALSE, value |-> FALSE]

CallIsEqual ==
    /\ cmpPc = "start"
    /\ cmpPc' = "isEqual"
    /\ cmpOut' = isEqual(cmpPair, cmpAlias)
    /\ UNCHANGED <<cmpPair, cmpAlias>>

CallToString ==
    /\ cmpPc = "start"
    /\ cmpPc' = "toString"
    /\ cmpOut' = [thrown |-> FALSE, value |-> toString(cmpPair.actual)]
    /\ UNCHANGED <<cmpPair, cmpAlias>>

(***************************************************************************)
(* StringCompare.  The renderings are strings in which the escape          *)
(* sequences are single symbols: RED is "\033[41m" (a character that       *)
(* differs), YELLOW is "\033[43m" (a character past the other string's     *)
(* end), RESET is "\033[0m".                                               *)
(***************************************************************************)
RED    == "ESC[41m"
YELLOW == "ESC[43m"
RESET  == "ESC[0m"

DiffStrings == SeqsUpTo(Alphabet, MaxDiffLen)

\* expectedStr.at(i), actualStr.at(i): C++ counts from 0
At(s, i) == s[i + 1]

Marked(colour, c) == <<colour, c, RESET>>

DiffOff ==
    /\ expectedStr = <<>> /\ actualStr = <<>>
    /\ diffExpected = <<>> /\ diffActual = <<>>
    /\ diffs = 0 /\ diffPc = "off" /\ diffI = 0

\* StringCompare(expected, actual): the members as the constructor's initialisers
\* leave them, calculateDiff() about to run.
DiffInit ==
    /\ expectedStr \in DiffStrings
    /\ actualStr \in DiffStrings
    /\ diffExpected = <<>> /\ diffActual = <<>>
    /\ diffs = 0 /\ diffPc = "loop1" /\ diffI = 0

\* A plausible slip: a character past the end of actualStr is marked but not counted.
MissingNotCounted(n) == n

\* The diffs++ of the branch taken when actualStr has ended.
MissingCounted(n) == n + 1

\* A plausible slip: equal characters are highlighted too.
SameCharMarked(c) == Marked(RED, c)

\* What is appended for a character that is the same in both strings.
SameChar(c) == <<c>>

\* One iteration of the first loop of calculateDiff.
calculateDiffLoop1 ==
    /\ diffPc = "loop1"
    /\ diffI < Len(expectedStr)
    /\ IF Len(actualStr) > diffI
       THEN IF At(expectedStr, diffI) = At(actualStr, diffI)
            THEN /\ diffExpected' = diffExpected \o SameChar(At(expectedStr, diffI))
                 /\ diffActual' = diffActual \o SameChar(At(actualStr, diffI))
                 /\ diffs' = diffs
            ELSE /\ diffs' = diffs + 1
                 /\ diffExpected' = diffExpected \o Marked(RED, At(expectedStr, diffI))
                 /\ diffActual' = diffActual \o Marked(RED, At(actualStr, diffI))
       ELSE /\ diffExpected' = diffExpected \o Marked(YELLOW, At(expectedStr, diffI))
            /\ diffs' = MissingCounted(diffs)
            /\ diffActual' = diffActual
    /\ diffI' = diffI + 1
    /\ UNCHANGED <<expectedStr, actualStr, diffPc>>

\* diffs += (actualStr.size() - expectedStr.size())
TailCount(n, e, a) == n + (Len(a) - Len(e))

\* The end of the first loop and the test of the second.
calculateDiffTail ==
    /\ diffPc = "loop1"
    /\ diffI >= Len(expectedStr)
    /\ IF Len(expectedStr) < Len(actualStr)
       THEN /\ diffs' = TailCount(diffs, expectedStr, actualStr)
            /\ diffI' = Len(expectedStr)
            /\ diffPc' = "loop2"
       ELSE /\ diffPc' = "done"
            /\ UNCHANGED <<diffs, diffI>>
    /\ UNCHANGED <<expectedStr, actualStr, diffExpected, diffActual>>

\* One iteration of the second loop of calculateDiff, or its end.
calculateDiffLoop2 ==
    /\ diffPc = "loop2"
    /\ IF diffI < Len(actualStr)
       THEN /\ diffActual' = diffActual \o Marked(YELLOW, At(actualStr, diffI))
            /\ diffI' = diffI + 1
            /\ diffPc' = diffPc
       ELSE /\ diffPc' = "done"
            /\ UNCHANGED <<diffActual, diffI>>
    /\ UNCHANGED <<expectedStr, actualStr, diffExpected, diffs>>

(***************************************************************************)
(* Result: one assertion's verdict.  message is the formatted text, kept   *)
(* as the fields it is built from: label is the number printed after       *)
(* "Test", shown the word printed after it ("Success", "Failure", or       *)
(* "Exception Thrown" with the caught what()), suffix the per-index        *)
(* message.                                                                *)
(***************************************************************************)
Result(m, s, group, test, err) ==
    [type |-> "result", message |-> m, state |-> s, groupNum |-> group, testNum |-> test,
     errors |-> err]

\* CommonLib::getStringResultOnSuccess: the text of a comparison
getStringResultOnSuccess(actual, expected, state, testNum) ==
    [label |-> testNum, shown |-> IF state THEN "Success" ELSE "Failure",
     was |-> actual, expected |-> expected, what |-> <<>>]

\* "Exception Thrown: " + e.what() + " on " + std::to_string(i)
ExceptionThrownText(what, i) ==
    [label |-> i, shown |-> "Exception Thrown", was |-> <<>>, expected |-> <<>>,
     what |-> what]

\* (index < messages.size() ? ", " + messages.at(index) : "")
MessageSuffix(messages, index) ==
    IF index < Len(messages) THEN messages[index + 1] ELSE <<>>

\* Two ints compared by isEqual: the built-in == decides.
IntPair(a, e) == Pair(IntValue(a), IntValue(e), TRUE, e = a, FALSE, FALSE)

(***************************************************************************)
(* TestRange<U>::RunAllArgs.  The callable under test is a function of the *)
(* index: it returns an int, [kind |-> "ret", value |-> n], or throws an   *)
(* exception derived from std::exception, [kind |-> "raise", what |-> w].  *)
(***************************************************************************)
RangeIndices  == 0..MaxRange
RetValues     == {1, 2}
Behaviours    == [kind : {"ret"}, value : RetValues] \cup
                 [kind : {"raise"}, what : {<<"o", "o", "r">>}]
ExpectedSeqs  == SeqsUpTo(RetValues, MaxExpected)
MessageSeqs   == {<<>>, <<<<"m">>>>}

\* A plausible slip: the expected sequence wraps around once it is exhausted.
ClampIndexWrap(size, index) == index % size

\* std::min<unsigned long long>(this->expected.size() - 1, index)
ClampIndex(size, index) == Min(size - 1, index)

\* The test number given to the Result of one iteration.
TestNumber(i, index) == index + 1

\* A plausible slip: the loop gives up at the first exception.
AfterExceptionStop(i, to) == to + 1

\* The value of i the loop goes on with after an iteration that caught an
\* exception: the catch block falls through to index++ and i++.
AfterException(i, to) == i + 1

\* The Result one iteration of the loop appends, for range value i at position index.
RangeIteration(obj, fn, i, index) ==
    LET r      == fn[i]
        suffix == MessageSuffix(obj.messages, index)
    IN  IF r.kind = "raise"
        THEN Result([text |-> ExceptionThrownText(r.what, i), suffix |-> suffix],
                    FALSE, obj.groupNum, TestNumber(i, index), <<>>)
        ELSE IF obj.expected = <<>>
        THEN \* only the text says "Success": the local state is still false
             Result([text |-> getStringResultOnSuccess(r.value, <<>>, TRUE, i),
                     suffix |-> suffix],
                    FALSE, obj.groupNum, TestNumber(i, index), <<>>)
        ELSE LET expected == obj.expected[ClampIndex(Len(obj.expected), index) + 1]
                 state    == isEqual(IntPair(r.value, expected), FALSE).value
             IN  Result([text |-> getStringResultOnSuccess(r.value, expected, state, i),
                         suffix |-> suffix],
                        state, obj.groupNum, TestNumber(i, index), <<>>)

\* TestRange(From, To, Expected, Message, Messages, group)
TestRange(from, to, expected, messages, group) ==
    [from |-> from, to |-> to, expected |-> expected, messages |-> messages,
     groupNum |-> group, results |-> <<>>]

RngOff ==
    /\ rng = TestRange(0, 0, <<>>, <<>>, 0)
    /\ rngFn = [i \in {0} |-> [kind |-> "ret", value |-> 1]]
    /\ rngPc = "off"
    /\ rngLoop = [i |-> 0, index |-> 0]
    /\ rngRet = <<>>
    /\ rngFirst = <<>>

RngInit ==
    /\ \E from \in {0, 1}, to \in -1..MaxRange, e \in ExpectedSeqs, m \in MessageSeqs :
          rng = TestRange(from, to, e, m, 0)
    /\ rngFn \in [RangeIndices -> Behaviours]
    /\ rngPc = "constructed"
    /\ rngLoop = [i |-> 0, index |-> 0]
    /\ rngRet = <<>>
    /\ rngFirst = <<>>

\* int index = 0; signed_size_t i = from
RunAllArgsEnter ==
    /\ rngPc = "constructed"
    /\ rngPc' = "loop"
    /\ rngLoop' = [i |-> rng.from, index |-> 0]
    /\ UNCHANGED <<rng, rngFn, rngRet, rngFirst>>

\* One iteration of the for loop.
RunAllArgsLoop ==
    /\ rngPc = "loop"
    /\ rngLoop.i <= rng.to
    /\ rng' = [rng EXCEPT !.results =
                  Append(@, RangeIteration(rng, rngFn, rngLoop.i, rngLoop.index))]
    /\ rngLoop' = [i |-> IF rngFn[rngLoop.i].kind = "raise"
                         THEN AfterException(rngLoop.i, rng.to)
                         ELSE rngLoop.i + 1,
                   index |-> rngLoop.index + 1]
    /\ UNCHANGED <<rngFn, rngPc, rngRet, rngFirst>>

\* return this->results
RunAllArgsReturn ==
    /\ rngPc = "loop"
    /\ rngLoop.i > rng.to
    /\ rngPc' = "returned"
    /\ rngRet' = rng.results
    /\ UNCHANGED <<rng, rngFn, rngLoop, rngFirst>>

\* TestRange::UpdateTest(From, To) on an object that has been run, Message and
\* Messages left at their defaults; the object is then run again.  results is
\* not among the members it assigns.
UpdateTest(From, To) ==
    /\ rngPc = "returned"
    /\ rngFirst = <<>>
    /\ rng' = [rng EXCEPT !.from = From, !.to = To, !.messages = <<>>]
    /\ rngFirst' = <<rngRet>>
    /\ rngPc' = "constructed"
    /\ UNCHANGED <<rngFn, rngLoop, rngRet>>

(***************************************************************************)
(* TestTwoVector<T, U>::RunAllArgs.  The callable under test is a function *)
(* of the input value handed to it as first argument.  An exception of the *)
(* try block, the callable's or the std::out_of_range of vector::at, ends  *)
(* the iteration in the catch block, which fills a local string and        *)
(* appends nothing.                                                        *)
(***************************************************************************)
InputValues == {1, 2}
InputSeqs   == SeqsUpTo(InputValues, MaxInputs)

\* std::vector::at(i): whether it throws std::out_of_range
AtThrows(vec, i) == i >= Len(vec)

\* "No exception thrown" against "(nothing)": the text of an iteration that
\* compares nothing
NoExceptionText(i) == getStringResultOnSuccess(<<"none">>, <<>>, TRUE, i)

\* What one iteration of the loop appends to results for position i: a sequence
\* of no or one Result.
TwoVectorIteration(obj, fn, i) ==
    LET r      == fn[obj.actual[i + 1]]
        suffix == MessageSuffix(obj.messages, i)
    IN  IF r.kind = "raise" THEN <<>>
        ELSE IF obj.expected = <<>>
        THEN \* only the text says "Success": the local state is still false
             <<Result([text |-> NoExceptionText(i), suffix |-> suffix],
                      FALSE, obj.groupNum, i + 1, <<>>)>>
        ELSE LET expected == obj.expected[ClampIndex(Len(obj.expected), i) + 1]
                 state    == isEqual(IntPair(r.value, expected), FALSE).value
             IN  IF AtThrows(obj.expected, i) THEN <<>>
                 ELSE <<Result([text |-> getStringResultOnSuccess(obj.actual[i + 1],
                                                                  obj.expected[i + 1], state, i),
                                suffix |-> suffix],
                               state, obj.groupNum, i + 1, <<>>)>>

\* TestTwoVector(Actual, Expected, Message, Messages, group)
TestTwoVector(actual, expected, messages, group) ==
    [actual |-> actual, expected |-> expected, messages |-> messages,
     groupNum |-> group, results |-> <<>>]

TvOff ==
    /\ tv = TestTwoVector(<<>>, <<>>, <<>>, 0)
    /\ tvFn = [v \in {1} |-> [kind |-> "ret", value |-> 1]]
    /\ tvPc = "off"
    /\ tvI = 0
    /\ tvRet = <<>>

TvInit ==
    /\ \E a \in InputSeqs, e \in ExpectedSeqs, m \in MessageSeqs :
          tv = TestTwoVector(a, e, m, 0)
    /\ tvFn \in [InputValues -> Behaviours]
    /\ tvPc = "loop"
    /\ tvI = 0
    /\ tvRet = <<>>

\* One iteration of the for loop.
TwoVectorLoop ==
    /\ tvPc = "loop"
    /\ tvI < Len(tv.actual)
    /\ tv' = [tv EXCEPT !.results = @ \o TwoVectorIteration(tv, tvFn, tvI)]
    /\ tvI' = tvI + 1
    /\ UNCHANGED <<tvFn, tvPc, tvRet>>

\* return this->results
TwoVectorReturn ==
    /\ tvPc = "loop"
    /\ tvI >= Len(tv.actual)
    /\ tvPc' = "returned"
    /\ tvRet' = tv.results
    /\ UNCHANGED <<tv, tvFn, tvI>>

(***************************************************************************)
(* TestResult: a named group of printables with its counters and status.   *)
(***************************************************************************)
DefaultName      == [label |-> "(default)", thread |-> "none", call |-> 0]
TestName(t, n)   == [label |-> "test", thread |-> t, call |-> n]

TestResult(testName) ==
    [name |-> testName, status |-> "SUCCESS", printables |-> <<>>,
     numPassing |-> 0, numTotal |-> 0]

addPrintable(tr, printable) == [tr EXCEPT !.printables = Append(@, printable)]

\* A plausible slip: a failing Result marks the group as failed.
giveResultsStateMarking(tr, passing) ==
    [tr EXCEPT !.numPassing = @ + (IF passing THEN 1 ELSE 0),
               !.numTotal = @ + 1,
               !.status = IF passing THEN @ ELSE "FAILURE"]

\* TestResult::giveResultsState
giveResultsState(tr, passing) ==
    [tr EXCEPT !.numPassing = @ + (IF passing THEN 1 ELSE 0),
               !.numTotal = @ + 1]

setStatus(tr, resultStatus) == [tr EXCEPT !.status = resultStatus]

\* A plausible slip: a message of type FAIL is a failing printable.
TestMessageFailing(m, pOf, group, messageType) ==
    [type |-> "testMessage", message |-> m, state |-> messageType # "FAIL",
     groupNum |-> group, partOf |-> pOf, messageType |-> messageType]

\* TestMessage(m, pOf, group, messageType); Printable::state stays true
TestMessage(m, pOf, group, messageType) ==
    [type |-> "testMessage", message |-> m, state |-> TRUE, groupNum |-> group,
     partOf |-> pOf, messageType |-> messageType]

(***************************************************************************)
(* Tester.  A std::unique_ptr is a sequence of length 0 (null) or 1.       *)
(* settingsMap gives for each setting "absent" (the std::map holds no node *)
(* for it), "false" or "true".                                             *)
(***************************************************************************)
TesterSettings == {"THROW_ON_FAIL", "THROW_ON_ERROR", "THROW_ON_ALIAS", "PRINT_SYNC"}
ThrowSettings  == {"THROW_ON_FAIL", "THROW_ON_ERROR", "THROW_ON_ALIAS"}

NoSettings == [s \in TesterSettings |-> "absent"]

\* Tester(): the members as their default initialisers leave them
NewTester ==
    [results |-> <<>>, defaultTestResult |-> <<>>,
     currentTestResult |-> <<TestResult(DefaultName)>>,
     groupNum |-> 1, settingsMap |-> NoSettings]

\* settingsMap[setting], read: std::map::operator[] inserts a value-initialised
\* (false) node when the key is absent.
SettingTouched(T, setting) ==
    [T EXCEPT !.settingsMap[setting] = IF @ = "absent" THEN "false" ELSE @]

SettingValue(T, setting) == T.settingsMap[setting] = "true"

\* updateSetting(setting, newSetting) on a Tester no other thread uses
updateSetting(T, setting, newSetting) ==
    [T EXCEPT !.settingsMap[setting] = IF newSetting THEN "true" ELSE "false"]

\* A plausible slip: a message is counted as a passing Result.
addMessageCounted(T, message, type) ==
    [T EXCEPT !.currentTestResult[1] =
        giveResultsState(addPrintable(@, TestMessage(message, @.name, Len(T.results) + 1,
                                                     type)), TRUE)]

\* Tester::addMessage
addMessage(T, message, type) ==
    [T EXCEPT !.currentTestResult[1] =
        addPrintable(@, TestMessage(message, @.name, Len(T.results) + 1, type))]

\* A plausible slip: the status is set on the group sealed last, when there is one.
TesterSetStatusSealed(T, status) ==
    IF T.results = <<>> THEN [T EXCEPT !.currentTestResult[1] = setStatus(@, status)]
    ELSE [T EXCEPT !.results[Len(T.results)] = setStatus(@, status)]

\* Tester::setStatus
TesterSetStatus(T, status) ==
    [T EXCEPT !.currentTestResult[1] = setStatus(@, status)]

\* Tester::addResult, run to its end on a Tester no other thread uses
addResult(T, res) ==
    LET T1 == [T EXCEPT !.currentTestResult[1] = addPrintable(@, res)]
        T2 == SettingTouched(T1, "PRINT_SYNC")
    IN  [T2 EXCEPT !.currentTestResult[1] = giveResultsState(@, res.state)]

(***************************************************************************)
(* Tester::testOne.  The text of the Result keeps the renderings of the    *)
(* two values and, as `at', the call that issued it (the source location   *)
(* and message of the call).                                               *)
(***************************************************************************)
TestOneText(p, state, at) ==
    [text |-> getStringResultOnSuccess(toString(p.actual), toString(p.expected), state, 1),
     at |-> at]

\* "Test #1\nException thrown: " + exception.what()
TestOneExceptionText(what, at) ==
    [text |-> ExceptionThrownText(what, 1), at |-> at]

\* errors of testOne: the note added when a failing pair renders the same
TestOneErrors(p, state) ==
    IF toString(p.expected) = toString(p.actual) /\ ~state THEN <<1>> ELSE <<>>

\* The condition of the catch block: operator[] is applied to the settings in
\* turn, as far as || evaluates them.
CatchTouched(T) ==
    LET T1 == SettingTouched(T, "THROW_ON_FAIL")
        T2 == SettingTouched(T1, "THROW_ON_ALIAS")
        T3 == SettingTouched(T2, "THROW_ON_ERROR")
    IN  IF SettingValue(T, "THROW_ON_FAIL") THEN T1
        ELSE IF SettingValue(T, "THROW_ON_ALIAS") THEN T2
        ELSE T3

\* A plausible slip: the handler rethrows under THROW_ON_FAIL only.
CatchRethrowsOnFail(T) == SettingValue(T, "THROW_ON_FAIL")

\* settingsMap[THROW_ON_FAIL] || settingsMap[THROW_ON_ALIAS] || settingsMap[THROW_ON_ERROR]
CatchRethrows(T) == \E s \in ThrowSettings : SettingValue(T, s)

\* The catch block of testOne on a Tester no other thread uses.
TestOneCatchOn(T, what, at) ==
    LET T1 == CatchTouched(T)
    IN  IF CatchRethrows(T)
        THEN [tester |-> T1, threw |-> TRUE, what |-> what, state |-> FALSE, ret |-> <<>>]
        ELSE LET res == Result(TestOneExceptionText(what, at), FALSE, T1.groupNum, 1, <<>>)
                 T2  == addResult([T1 EXCEPT !.groupNum = @ + 1], res)
             IN  \* return {args, false, getNextGroupNum(), 1}
                 [tester |-> [T2 EXCEPT !.groupNum = @ + 1], threw |-> FALSE,
                  what |-> <<>>, state |-> FALSE,
                  ret |-> <<Result(TestOneExceptionText(what, at), FALSE, T2.groupNum,
                                   1, <<>>)>>]

\* testOne run to its end on a Tester no other thread uses (the tempTester of
\* test()): the Tester afterwards, whether the call threw, and the state of the
\* Result it returned.  raises: the user's operator== or operator<< throws.
TestOneOn(T, p, raises, at) ==
    LET T1 == SettingTouched(T, "THROW_ON_ALIAS")
        r  == isEqual(p, SettingValue(T1, "THROW_ON_ALIAS"))
    IN  IF raises
        THEN TestOneCatchOn(T1, <<"user">>, at)
        ELSE IF r.thrown
        THEN TestOneCatchOn(T1, <<r.what>>, at)
        ELSE LET res == Result(TestOneText(p, r.value, at), r.value, T1.groupNum, 1,
                               TestOneErrors(p, r.value))
                 T2  == SettingTouched([T1 EXCEPT !.groupNum = @ + 1], "THROW_ON_FAIL")
             IN  IF SettingValue(T2, "THROW_ON_FAIL") /\ ~r.value
                 THEN TestOneCatchOn(TesterSetStatus(T2, "FAILURE_EARLY"), <<"failed">>, at)
                 ELSE [tester |-> addResult(T2, res), threw |-> FALSE, what |-> <<>>,
                       state |-> r.value, ret |-> <<res>>]

\* testThreadSafe up to the call of the method: the current group is set aside
\* and a group named testName opened.
testThreadSafeEnter(T, testName) ==
    SettingTouched([T EXCEPT !.defaultTestResult = T.currentTestResult,
                             !.currentTestResult = <<TestResult(testName)>>],
                   "PRINT_SYNC")

\* "Test ended prematurely, exception thrown: " + e.what()
EndedPrematurely(what) == [text |-> "Test ended prematurely, exception thrown", what |-> what]

\* The catch block of testThreadSafe, run on the Tester handed to the method.
testThreadSafeCatch(T, what) ==
    TesterSetStatus(addMessage(T, EndedPrematurely(what), "FAIL"), "FAILURE_EARLY")

\* A plausible slip: the group is left current instead of being sealed.
testThreadSafeLeaveUnsealed(T) == T

\* A plausible slip: the group set aside is not made current again.
testThreadSafeLeaveNoRestore(T) ==
    [T EXCEPT !.results = Append(@, T.currentTestResult[1]),
              !.currentTestResult = <<>>]

\* testThreadSafe after the method: the group is moved to the end of results
\* and the group set aside is current again.
testThreadSafeLeave(T) ==
    [T EXCEPT !.results = Append(@, T.currentTestResult[1]),
              !.currentTestResult = T.defaultTestResult,
              !.defaultTestResult = <<>>]

Threads == {"t1", "t2"}

(***************************************************************************)
(* WHAT THE THREADS DO.  The threads issue at most MaxOps operations on    *)
(* the shared Tester, each thread one after the other: testOne(a, e) or    *)
(* test(name, callable), whose callable issues at most MaxAsserts testOne  *)
(* calls on the Tester it is handed and then returns or throws.            *)
(*                                                                         *)
(* An input of testOne is a pair and whether the user's operator== or      *)
(* operator<< throws a std::exception while testOne's try block runs.      *)
(***************************************************************************)
\* An object of a type that offers neither ==, equals, << nor toString().
OpaqueValue == [kind |-> "obj", stream |-> FALSE, hasToString |-> FALSE,
                out |-> <<>>, ts |-> <<>>, addr |-> "7"]

TestOneInput(p, raises) == [pair |-> p, raises |-> raises]

TestOneInputs ==
    { TestOneInput(IntPair(1, 1), FALSE),        \* passes
      TestOneInput(IntPair(1, 2), FALSE),        \* fails
      TestOneInput(Pair(OpaqueValue, OpaqueValue, FALSE, FALSE, FALSE, FALSE), FALSE),
      TestOneInput(IntPair(1, 1), TRUE) }        \* the comparison throws

\* The call a Result was issued by: thread, number of the thread's operation,
\* number of the assertion inside the callable of test() (0 for a direct call).
CallId(t, n, j) == [thread |-> t, call |-> n, assert |-> j]

\* The locals of the operation a thread runs.
Locals(op, id, input) ==
    [op |-> op, id |-> id, input |-> input, state |-> FALSE, g |-> 0, res |-> <<>>,
     seen |-> <<>>, counts |-> <<0, 0>>, path |-> "try", what |-> <<>>, asserts |-> 0,
     issued |-> <<>>]

NoInput  == TestOneInput(IntPair(0, 0), FALSE)
NoLocals == Locals("none", CallId("none", 0, 0), NoInput)

\* What a thread keeps of an operation it has completed: whether it ended by an
\* exception, the state of the Result it returned, and for test() the
\* assertions the callable issued that returned and the group that was sealed.
Done(l, threw, state, group) ==
    [op |-> l.op, id |-> l.id, threw |-> threw, state |-> state, issued |-> l.issued,
     group |-> group]

\* The operations issued so far, and whether one more may be issued.
RECURSIVE OpsIssuedBy(_)
OpsIssuedBy(T) ==
    IF T = {} THEN 0
    ELSE LET t == CHOOSE u \in T : TRUE
         IN  Len(calls[t]) + (IF pc[t] = "idle" THEN 0 ELSE 1) + OpsIssuedBy(T \ {t})

MayIssue(t) == pc[t] = "idle" /\ OpsIssuedBy(Threads) < MaxOps

\* The state in which no thread has started.
TstOff ==
    /\ tester = NewTester
    /\ resultMutex = "free" /\ testResultMutex = "free" /\ settingsMutex = "free"
    /\ pc = [t \in Threads |-> "off"]
    /\ loc = [t \in Threads |-> NoLocals]
    /\ tempTester = [t \in Threads |-> <<>>]
    /\ calls = [t \in Threads |-> <<>>]

\* The shared Tester after construction and at most one updateSetting(s, true)
\* on a throw setting, made before the threads start.
TstInit ==
    /\ tester \in {NewTester} \cup {updateSetting(NewTester, s, TRUE) : s \in ThrowSettings}
    /\ resultMutex = "free" /\ testResultMutex = "free" /\ settingsMutex = "free"
    /\ pc = [t \in Threads |-> "idle"]
    /\ loc = [t \in Threads |-> NoLocals]
    /\ tempTester = [t \in Threads |-> <<>>]
    /\ calls = [t \in Threads |-> <<>>]

(***************************************************************************)
(* Locks.  std::lock_guard blocks until the mutex is free.                 *)
(***************************************************************************)
\* A plausible slip: the critical section entered without waiting for the mutex.
LockableAlways(mutex) == TRUE

Lockable(mutex) == mutex = "free"

(***************************************************************************)
(* Unlocked accesses to the shared settingsMap.  Two calls of              *)
(* std::map::operator[] of which one inserts, made by two threads with no  *)
(* lock in common, are a data race: the node inserted may be lost, a       *)
(* lookup running into the insertion may miss the node it looks for (and   *)
(* give the value-initialised false), or the process dies on the tree's    *)
(* broken links (SettingsRaceAbort).                                       *)
(***************************************************************************)
\* The setting a thread's next step looks up in the shared settingsMap, or "none".
KeyAt(t) ==
    CASE MayIssue(t) -> "THROW_ON_ALIAS"
      [] pc[t] = "failCheck"   -> "THROW_ON_FAIL"
      [] pc[t] = "addStore"    -> "PRINT_SYNC"
      [] pc[t] = "catchFail"   -> "THROW_ON_FAIL"
      [] pc[t] = "catchAlias"  -> "THROW_ON_ALIAS"
      [] pc[t] = "catchError"  -> "THROW_ON_ERROR"
      [] pc[t] = "updStore"    -> "THROW_ON_FAIL"
      [] pc[t] = "getLookup"   -> "THROW_ON_ERROR"
      [] OTHER                 -> "none"

Inserts(key) == key # "none" /\ tester.settingsMap[key] = "absent"

\* The lookup thread t is about to make can overlap another thread's, and one
\* of the two inserts.
Racing(t) ==
    /\ KeyAt(t) # "none"
    /\ \E u \in Threads \ {t} :
          /\ KeyAt(u) # "none"
          /\ Inserts(KeyAt(t)) \/ Inserts(KeyAt(u))

\* What settingsMap[key] can give thread t, and leave behind.
LookupOutcomes(t, key) ==
    LET found   == SettingValue(tester, key)
        touched == SettingTouched(tester, key).settingsMap
    IN  {[value |-> found, map |-> touched]} \cup
        (IF Racing(t)
         THEN {[value |-> v, map |-> m] :
                   v \in {found, FALSE}, m \in {touched, tester.settingsMap}}
         ELSE {})

\* tempTester.settingsMap = settingsMap: the copy test() takes.  It reads the
\* shared map without a lock; overlapping an insertion it may miss nodes.
CopyOutcomes(t) ==
    {tester.settingsMap} \cup
    (IF \E u \in Threads \ {t} : Inserts(KeyAt(u))
     THEN {m \in [TesterSettings -> {"absent", "false", "true"}] :
              \A s \in TesterSettings : m[s] \in {tester.settingsMap[s], "absent"}}
     ELSE {})

(***************************************************************************)
(* Tester::testOne on the shared Tester, one step per access to what the   *)
(* threads share.                                                          *)
(***************************************************************************)
\* The operation of thread t is over: it returned, or ended by an exception.
Completes(t, threw, state, group) ==
    /\ calls' = [calls EXCEPT ![t] = Append(@, Done(loc[t], threw, state, group))]
    /\ loc' = [loc EXCEPT ![t] = NoLocals]
    /\ pc' = [pc EXCEPT ![t] = "idle"]

\* testOne is called: settingsMap[THROW_ON_ALIAS] is looked up and the two
\* values are compared and rendered.
TestOneCall(t, in) ==
    /\ MayIssue(t)
    /\ \E o \in LookupOutcomes(t, "THROW_ON_ALIAS") :
          LET l == Locals("testOne", CallId(t, Len(calls[t]) + 1, 0), in)
              r == isEqual(in.pair, o.value)
          IN  /\ tester' = [tester EXCEPT !.settingsMap = o.map]
              /\ IF in.raises
                 THEN /\ loc' = [loc EXCEPT ![t] = [l EXCEPT !.what = <<"user">>]]
                      /\ pc' = [pc EXCEPT ![t] = "catchFail"]
                 ELSE IF r.thrown
                 THEN /\ loc' = [loc EXCEPT ![t] = [l EXCEPT !.what = <<r.what>>]]
                      /\ pc' = [pc EXCEPT ![t] = "catchFail"]
                 ELSE /\ loc' = [loc EXCEPT ![t] = [l EXCEPT !.state = r.value]]
                      /\ pc' = [pc EXCEPT ![t] = "groupLoad"]
    /\ UNCHANGED <<resultMutex, testResultMutex, settingsMutex, tempTester, calls>>

\* getNextGroupNum, groupNum++: the read of the counter
GetNextGroupNumLoad(t) ==
    /\ pc[t] = "groupLoad"
    /\ loc' = [loc EXCEPT ![t].g = tester.groupNum]
    /\ pc' = [pc EXCEPT ![t] = "groupStore"]
    /\ UNCHANGED <<tester, resultMutex, testResultMutex, settingsMutex, tempTester, calls>>

\* getNextGroupNum, groupNum++: the write of the counter, and the Result built
\* with the number read.  The third number testOne takes, for the Result its
\* catch block returns, ends the call.
GetNextGroupNumStore(t) ==
    LET l == loc[t] IN
    /\ pc[t] = "groupStore"
    /\ tester' = [tester EXCEPT !.groupNum = l.g + 1]
    /\ CASE l.path = "try" ->
              /\ loc' = [loc EXCEPT ![t].res =
                     <<Result(TestOneText(l.input.pair, l.state, l.id), l.state, l.g, 1,
                              TestOneErrors(l.input.pair, l.state))>>]
              /\ pc' = [pc EXCEPT ![t] = "failCheck"]
              /\ UNCHANGED calls
         [] l.path = "catch" ->
              /\ loc' = [loc EXCEPT ![t].res =
                     <<Result(TestOneExceptionText(l.what, l.id), FALSE, l.g, 1, <<>>)>>]
              /\ pc' = [pc EXCEPT ![t] = "addLock"]
              /\ UNCHANGED calls
         [] l.path = "range" ->
              /\ pc' = [pc EXCEPT ![t] = "invoke"]
              /\ UNCHANGED <<loc, calls>>
         [] OTHER -> Completes(t, FALSE, FALSE, <<>>)
    /\ UNCHANGED <<resultMutex, testResultMutex, settingsMutex, tempTester>>

\* if (settingsMap[THROW_ON_FAIL] && !state)
TestOneFailCheck(t) ==
    /\ pc[t] = "failCheck"
    /\ \E o \in LookupOutcomes(t, "THROW_ON_FAIL") :
          /\ tester' = [tester EXCEPT !.settingsMap = o.map]
          /\ pc' = [pc EXCEPT ![t] = IF o.value /\ ~loc[t].state THEN "failStatus"
                                     ELSE "addLock"]
    /\ UNCHANGED <<resultMutex, testResultMutex, settingsMutex, loc, tempTester, calls>>

\* A plausible slip: the throw leaves testResultMutex locked.
TestOneFailStatusLocked(t) ==
    /\ pc[t] = "failStatus"
    /\ Lockable(testResultMutex)
    /\ testResultMutex' = t
    /\ tester' = TesterSetStatus(tester, "FAILURE_EARLY")
    /\ loc' = [loc EXCEPT ![t].what = <<"failed">>]
    /\ pc' = [pc EXCEPT ![t] = "catchFail"]
    /\ UNCHANGED <<resultMutex, settingsMutex, tempTester, calls>>

\* The block that throws: the status is set under testResultMutex, which the
\* throw releases; the Result is not handed to addResult.
TestOneFailStatus(t) ==
    /\ pc[t] = "failStatus"
    /\ Lockable(testResultMutex)
    /\ tester' = TesterSetStatus(tester, "FAILURE_EARLY")
    /\ loc' = [loc EXCEPT ![t].what = <<"failed">>]
    /\ pc' = [pc EXCEPT ![t] = "catchFail"]
    /\ UNCHANGED <<resultMutex, testResultMutex, settingsMutex, tempTester, calls>>

\* The condition of the catch block, one lookup at a time as || evaluates them:
\* on a setting that is set, testOne ends by a TestException.
TestOneCatch(t) ==
    /\ pc[t] \in {"catchFail", "catchAlias", "catchError"}
    /\ \E o \in LookupOutcomes(t, KeyAt(t)) :
          /\ tester' = [tester EXCEPT !.settingsMap = o.map]
          /\ IF o.value
             THEN Completes(t, TRUE, FALSE, <<>>)
             ELSE /\ pc' = [pc EXCEPT ![t] =
                        CASE pc[t] = "catchFail"  -> "catchAlias"
                          [] pc[t] = "catchAlias" -> "catchError"
                          [] OTHER                -> "groupLoad"]
                  /\ loc' = [loc EXCEPT ![t].path =
                        IF pc[t] = "catchError" THEN "catch" ELSE @]
                  /\ UNCHANGED calls
    /\ UNCHANGED <<resultMutex, testResultMutex, settingsMutex, tempTester>>

\* addResult: the lock is taken; emplace_back reads where the vector ends
AddResultLock(t) ==
    /\ pc[t] = "addLock"
    /\ Lockable(testResultMutex)
    /\ testResultMutex' = t
    /\ loc' = [loc EXCEPT ![t].seen = tester.currentTestResult[1].printables]
    /\ pc' = [pc EXCEPT ![t] = "addStore"]
    /\ UNCHANGED <<tester, resultMutex, settingsMutex, tempTester, calls>>

\* addResult: emplace_back writes the element after the end it read;
\* settingsMap[PRINT_SYNC] is looked up; giveResultsState reads the counters
AddResultStore(t) ==
    /\ pc[t] = "addStore"
    /\ \E o \in LookupOutcomes(t, "PRINT_SYNC") :
          tester' = [tester EXCEPT
                        !.currentTestResult[1] =
                            addPrintable([@ EXCEPT !.printables = loc[t].seen], loc[t].res[1]),
                        !.settingsMap = o.map]
    /\ loc' = [loc EXCEPT ![t].counts = <<tester.currentTestResult[1].numPassing,
                                          tester.currentTestResult[1].numTotal>>]
    /\ pc' = [pc EXCEPT ![t] = "addCount"]
    /\ UNCHANGED <<resultMutex, testResultMutex, settingsMutex, tempTester, calls>>

\* addResult: giveResultsState writes the counters; the lock is released.  In
\* the try block testOne returns; in the catch block it takes one more number;
\* testRange goes on with the next Result of its loop.
AddResultCount(t) ==
    LET l == loc[t] IN
    /\ pc[t] = "addCount"
    /\ tester' = [tester EXCEPT !.currentTestResult[1] =
                     giveResultsState([@ EXCEPT !.numPassing = l.counts[1],
                                                !.numTotal = l.counts[2]], l.res[1].state)]
    /\ testResultMutex' = "free"
    /\ IF l.path = "try"
       THEN Completes(t, FALSE, l.state, <<>>)
       ELSE IF l.path = "range"
       THEN IF Len(l.res) = 1
            THEN Completes(t, FALSE, l.res[1].state, <<>>)
            ELSE /\ loc' = [loc EXCEPT ![t].res = Tail(@)]
                 /\ pc' = [pc EXCEPT ![t] = "addLock"]
                 /\ UNCHANGED calls
       ELSE /\ loc' = [loc EXCEPT ![t].path = "catchRet"]
            /\ pc' = [pc EXCEPT ![t] = "groupLoad"]
            /\ UNCHANGED calls
    /\ UNCHANGED <<resultMutex, settingsMutex, tempTester>>

(***************************************************************************)
(* Tester::test on the shared Tester.  The callable works on the thread's  *)
(* own tempTester; each of its assertions is one step.                     *)
(***************************************************************************)
\* test(testName, method): tempTester is built, takes a copy of the settings,
\* and testThreadSafe runs on it up to the call of the method.
TestCall(t) ==
    /\ MayIssue(t)
    /\ \E m \in CopyOutcomes(t) :
          tempTester' = [tempTester EXCEPT ![t] =
              <<testThreadSafeEnter([NewTester EXCEPT !.settingsMap = m],
                                    TestName(t, Len(calls[t]) + 1))>>]
    /\ loc' = [loc EXCEPT ![t] = Locals("test", CallId(t, Len(calls[t]) + 1, 0), NoInput)]
    /\ pc' = [pc EXCEPT ![t] = "callable"]
    /\ UNCHANGED <<tester, resultMutex, testResultMutex, settingsMutex, calls>>

\* The callable calls tester.testOne(...) on the Tester it was handed.  A
\* TestException of that call leaves the callable.
CallableAssert(t, in) ==
    LET l  == loc[t]
        at == CallId(t, l.id.call, l.asserts + 1)
        r  == TestOneOn(tempTester[t][1], in.pair, in.raises, at)
    IN  /\ pc[t] = "callable"
        /\ l.asserts < MaxAsserts
        /\ tempTester' = [tempTester EXCEPT ![t] = <<r.tester>>]
        /\ IF r.threw
           THEN /\ loc' = [loc EXCEPT ![t].asserts = @ + 1, ![t].what = r.what,
                                      ![t].path = "catch"]
                /\ pc' = [pc EXCEPT ![t] = "leave"]
           ELSE /\ loc' = [loc EXCEPT ![t].asserts = @ + 1, ![t].issued = Append(@, at)]
                /\ pc' = pc
        /\ UNCHANGED <<tester, resultMutex, testResultMutex, settingsMutex, calls>>

\* The callable throws an exception of its own, derived from std::exception.
CallableRaise(t) ==
    /\ pc[t] = "callable"
    /\ loc' = [loc EXCEPT ![t].what = <<"user">>, ![t].path = "catch"]
    /\ pc' = [pc EXCEPT ![t] = "leave"]
    /\ UNCHANGED <<tester, resultMutex, testResultMutex, settingsMutex, tempTester, calls>>

CallableReturn(t) ==
    /\ pc[t] = "callable"
    /\ pc' = [pc EXCEPT ![t] = "leave"]
    /\ UNCHANGED <<tester, resultMutex, testResultMutex, settingsMutex, loc, tempTester,
                   calls>>

\* testThreadSafe after the method: its catch block if the method threw, then
\* the group is sealed on tempTester.
TestThreadSafeLeave(t) ==
    LET T == tempTester[t][1] IN
    /\ pc[t] = "leave"
    /\ tempTester' = [tempTester EXCEPT ![t] =
          <<testThreadSafeLeave(IF loc[t].path = "catch"
                                THEN testThreadSafeCatch(T, loc[t].what) ELSE T)>>]
    /\ pc' = [pc EXCEPT ![t] = "mergeLock"]
    /\ UNCHANGED <<tester, resultMutex, testResultMutex, settingsMutex, loc, calls>>

\* test(): resultMutex is taken; emplace_back reads where results ends
TestMergeLock(t) ==
    /\ pc[t] = "mergeLock"
    /\ Lockable(resultMutex)
    /\ resultMutex' = t
    /\ loc' = [loc EXCEPT ![t].seen = tester.results]
    /\ pc' = [pc EXCEPT ![t] = "mergeStore"]
    /\ UNCHANGED <<tester, testResultMutex, settingsMutex, tempTester, calls>>

\* test(): the groups of tempTester are moved to the end of results, the lock
\* is released and tempTester destroyed.
TestMergeStore(t) ==
    /\ pc[t] = "mergeStore"
    /\ tester' = [tester EXCEPT !.results = loc[t].seen \o tempTester[t][1].results]
    /\ resultMutex' = "free"
    /\ tempTester' = [tempTester EXCEPT ![t] = <<>>]
    /\ Completes(t, FALSE, FALSE, tempTester[t][1].results)
    /\ UNCHANGED <<testResultMutex, settingsMutex>>

\* The process dies on a settingsMap two threads have accessed at once.
SettingsRaceAbort ==
    /\ \E t \in Threads : Racing(t)
    /\ tester' = NewTester
    /\ resultMutex' = "free" /\ testResultMutex' = "free" /\ settingsMutex' = "free"
    /\ pc' = [t \in Threads |-> "aborted"]
    /\ loc' = [t \in Threads |-> NoLocals]
    /\ tempTester' = [t \in Threads |-> <<>>]
    /\ calls' = [t \in Threads |-> <<>>]

(***************************************************************************)
(* THE ENTRY POINTS OF Tester, each run to its end on a Tester no other    *)
(* thread uses.  Each gives the Tester afterwards, whether the call ended  *)
(* by an exception (and its what()), and the Results it returned.          *)
(*                                                                         *)
(* testTwoVectorMethod is not among them: its call RunAll(loc, "", method, *)
(* args...) (line 1580) resolves to RunAll(Callable&, Args...) with        *)
(* Callable = std::source_location, whose body has no viable RunAllArgs,   *)
(* so no instantiation of it compiles.                                     *)
(***************************************************************************)
\* getNextGroupNum(): the Tester after groupNum++; the call gives T.groupNum
getNextGroupNum(T) == [T EXCEPT !.groupNum = @ + 1]

\* for (const auto& result : testResults) addResult(result)
RECURSIVE AddResults(_, _)
AddResults(T, rs) ==
    IF rs = <<>> THEN T ELSE AddResults(addResult(T, Head(rs)), Tail(rs))

Returned(T, rs) == [tester |-> T, threw |-> FALSE, what |-> <<>>, ret |-> rs]

\* A double is a whole number of tenths.  The limits of an input are those of
\* the call: one for testFloat(actual, expected, range), two for
\* testFloat(actual, expected, lowerBound, upperBound).
FloatInputs ==
    { [data |-> 10, expected |-> 10, limits |-> <<0>>],
      [data |-> 24, expected |-> 25, limits |-> <<2>>],
      [data |-> 10, expected |-> 20, limits |-> <<2>>],
      [data |-> 10, expected |-> 12, limits |-> <<0, 2>>],
      [data |-> 10, expected |-> 8, limits |-> <<0, 2>>],
      [data |-> 10, expected |-> 10, limits |-> <<-1, 0>>] }

\* A plausible slip: the two limits the wrong way round.
TestFloatSwapped(data, expected, limits, group) ==
    [data |-> data, expected |-> expected, lowerLimit |-> limits[Len(limits)],
     upperLimit |-> limits[1], groupNum |-> group]

\* TestFloat(data, expected, range, message, group) and
\* TestFloat(data, expected, lLimit, uLimit, message, group)
TestFloat(data, expected, limits, group) ==
    [data |-> data, expected |-> expected, lowerLimit |-> limits[1],
     upperLimit |-> limits[Len(limits)], groupNum |-> group]

\* TestFloat::Run: inside the limits, or equal.
TestFloatRun(in, group, at) ==
    LET obj   == TestFloat(in.data, in.expected, in.limits, group)
        state == \/ /\ obj.data - obj.lowerLimit <= obj.expected
                    /\ obj.data + obj.upperLimit >= obj.expected
                 \/ isEqual(IntPair(obj.expected, obj.data), FALSE).value
    IN  Result([text |-> getStringResultOnSuccess(toString(IntValue(obj.data)),
                                                  toString(IntValue(obj.expected)), state, 1),
                at |-> at],
               state, obj.groupNum, 1, <<>>)

\* Tester::testFloat
TestFloatOn(T, in, at) ==
    LET res == TestFloatRun(in, T.groupNum, at)
    IN  Returned(addResult(getNextGroupNum(T), res), <<res>>)

\* A plausible slip: the test number is the index.
TypeTestNumberFromZero(i) == i

\* TestType::RunAll: the test number of the Result for index i
TypeTestNumber(i) == i + 1

\* TestType::RunAt on two ints
RunAt(actual, expected, i) == isEqual(IntPair(actual[i + 1], expected[i + 1]), FALSE).value

\* TestType::RunAll on vectors of int: one Result per index below both sizes
TestTypeRunAll(actual, expected, group) ==
    [k \in 1..Min(Len(actual), Len(expected)) |->
        LET state == RunAt(actual, expected, k - 1)
        IN  Result([text |-> getStringResultOnSuccess(actual[k], expected[k], state, k - 1),
                    suffix |-> <<>>],
                   state, group, TypeTestNumber(k - 1), <<>>)]

\* Tester::testType
TestTypeOn(T, actual, expected) ==
    LET testResults == TestTypeRunAll(actual, expected, T.groupNum)
    IN  Returned(AddResults(getNextGroupNum(T), testResults), testResults)

\* TestRange::RunAllArgs run to its end: the Results of the loop from i on
RECURSIVE RunAllArgsFrom(_, _, _, _)
RunAllArgsFrom(obj, fn, i, index) ==
    IF i > obj.to THEN <<>>
    ELSE <<RangeIteration(obj, fn, i, index)>> \o
         RunAllArgsFrom(obj, fn,
                        IF fn[i].kind = "raise" THEN AfterException(i, obj.to) ELSE i + 1,
                        index + 1)

\* Tester::testRange
TestRangeOn(T, from, to, expected, fn) ==
    LET obj         == TestRange(from, to, expected, <<>>, T.groupNum)
        testResults == RunAllArgsFrom(obj, fn, obj.from, 0)
    IN  Returned(AddResults(getNextGroupNum(T), testResults), testResults)

\* An exception that is not derived from std::exception (throw 42) passes every
\* handler of the library, which all name std::exception: the call is left and
\* the Tester is as it was.  Such an exception has no what().
Unhandled(T) == [tester |-> T, threw |-> TRUE, what |-> <<>>, ret |-> <<>>]

IsUnhandled(r) == r.threw /\ r.what = <<>>

\* Tester::testException: the method returns, throws an exception whose what()
\* is compared with the text handed in, or throws something else.
ExceptionBehaviours ==
    { [kind |-> "ret", value |-> 1],
      [kind |-> "raise", what |-> <<"a">>],
      [kind |-> "raise", what |-> <<"b">>],
      [kind |-> "raiseOther"] }

\* e.what() == exception
ExceptionMatches(what, exception) == what = exception

TestExceptionOn(T, exception, b) ==
    LET group == Len(T.results) + 1
        res   == IF b.kind = "ret"
                 THEN Result([text |-> "Did not throw exception.", what |-> <<>>],
                             FALSE, group, 1, <<>>)
                 ELSE IF ExceptionMatches(b.what, exception)
                 THEN Result([text |-> "Matched exception.", what |-> <<>>],
                             TRUE, group, 1, <<>>)
                 ELSE Result([text |-> "Did not match exception. Exception: ",
                              what |-> b.what],
                             FALSE, group, 1, <<>>)
    IN  IF b.kind = "raiseOther" THEN Unhandled(T)
        ELSE Returned(addResult(T, res), <<res>>)

\* enum TestFilter
TestFilters == {"PASSING_ONLY", "FAILING_ONLY", "BOTH"}

\* The filter of TestResult::toString applied to one printable: BOTH keeps it,
\* FAILING_ONLY keeps it when !printable->state, otherwise printable->state decides.
Retained(printable, filter) ==
    IF filter = "BOTH" THEN TRUE
    ELSE IF filter = "FAILING_ONLY" THEN ~printable.state
    ELSE printable.state

\* TestResult::toString: the heading of the group, then the printables the
\* filter keeps, in the order they were added.
TestResultToString(tr, filter) ==
    [name |-> tr.name, numPassing |-> tr.numPassing, numTotal |-> tr.numTotal,
     status |-> tr.status,
     items |-> SelectSeq(tr.printables, LAMBDA printable : Retained(printable, filter))]

\* Tester::printResults: what is written, one entry per group: the groups of
\* results from first to last, then the current group.
printResults(T, filter) ==
    [n \in 1..(Len(T.results) + 1) |->
        IF n <= Len(T.results) THEN TestResultToString(T.results[n], filter)
        ELSE TestResultToString(T.currentTestResult[1], filter)]

\* TestResult::toJSON: name, status, counters and the printables in order.
TestResultToJSON(tr) ==
    [name |-> tr.name, status |-> tr.status, numPassing |-> tr.numPassing,
     numTotal |-> tr.numTotal, printables |-> tr.printables]

\* Tester::getJSON: the current group first; then, when results is not empty,
\* std::accumulate started from the text of results.at(0) over all of results,
\* which gives the first sealed group twice.
getJSON(T) ==
    <<TestResultToJSON(T.currentTestResult[1])>> \o
    (IF T.results = <<>> THEN <<>>
     ELSE <<TestResultToJSON(T.results[1])>> \o
          [n \in 1..Len(T.results) |-> TestResultToJSON(T.results[n])])

(***************************************************************************)
(* ONE THREAD ON A Tester.  The thread makes at most MaxSeqOps calls, one  *)
(* after the other: the assertions testOne, testFloat, testType, testRange *)
(* and testException, and addMessage, setStatus, printResults, getJSON and *)
(* updateSetting.                                                          *)
(* At most MaxTests times it runs test(name, callable), whose callable     *)
(* makes calls of the same kinds on the Tester it is handed and then       *)
(* returns or throws.  An exception that leaves a call made by the thread  *)
(* itself is caught by the thread, which goes on.  A callable throws an    *)
(* exception derived from std::exception or, in test() and testException,  *)
(* one that is not.                                                        *)
(***************************************************************************)
TypeActual   == SeqsUpTo(RetValues, MaxTypeLen)
TypeExpected == SeqsUpTo({1}, MaxTypeLen)

SeqRangeFns ==
    { [i \in 0..1 |-> [kind |-> "ret", value |-> 1]],
      [i \in 0..1 |-> [kind |-> "ret", value |-> IF i = 0 THEN 2 ELSE 1]],
      [i \in 0..1 |-> IF i = 0 THEN [kind |-> "raise", what |-> <<"o", "o", "r">>]
                               ELSE [kind |-> "ret", value |-> 1]] }

SeqInput(op, in) == [op |-> op, in |-> in]

SeqInputs ==
    {SeqInput("testOne", in) : in \in TestOneInputs} \cup
    {SeqInput("testFloat", in) : in \in FloatInputs} \cup
    {SeqInput("testType", [actual |-> a, expected |-> e]) :
        a \in TypeActual, e \in TypeExpected} \cup
    {SeqInput("testRange", [from |-> 0, to |-> 1, expected |-> e, fn |-> f]) :
        e \in {<<>>, <<1>>}, f \in SeqRangeFns} \cup
    {SeqInput("testException", b) : b \in ExceptionBehaviours} \cup
    {SeqInput("addMessage", "LOG")} \cup
    {SeqInput("setStatus", st) : st \in {"FAILURE", "SUCCESS_EARLY"}} \cup
    {SeqInput("printResults", filter) : filter \in TestFilters} \cup
    {SeqInput("getJSON", "all")} \cup
    {SeqInput("updateSetting", [setting |-> "THROW_ON_FAIL", newSetting |-> b]) :
        b \in BOOLEAN}

\* The call c made on Tester T.
CallOn(T, c, at) ==
    CASE c.op = "testOne" ->
            LET r == TestOneOn(T, c.in.pair, c.in.raises, at)
            IN  [tester |-> r.tester, threw |-> r.threw, what |-> r.what, ret |-> r.ret]
      [] c.op = "testFloat" -> TestFloatOn(T, c.in, at)
      [] c.op = "testType" -> TestTypeOn(T, c.in.actual, c.in.expected)
      [] c.op = "testRange" -> TestRangeOn(T, c.in.from, c.in.to, c.in.expected, c.in.fn)
      [] c.op = "testException" -> TestExceptionOn(T, <<"a">>, c.in)
      [] c.op = "addMessage" -> Returned(addMessage(T, <<"note">>, c.in), <<>>)
      [] c.op = "setStatus" -> Returned(TesterSetStatus(T, c.in), <<>>)
      [] c.op = "printResults" -> Returned(T, printResults(T, c.in))
      [] c.op = "getJSON" -> Returned(T, getJSON(T))
      [] c.op = "updateSetting" ->
            Returned(updateSetting(T, c.in.setting, c.in.newSetting), <<>>)

\* The current group's printables added between T and T2, and its counters.
Appended(T, T2) ==
    SubSeq(T2.currentTestResult[1].printables,
           Len(T.currentTestResult[1].printables) + 1,
           Len(T2.currentTestResult[1].printables))

Counts(T) == <<T.currentTestResult[1].numPassing, T.currentTestResult[1].numTotal>>

\* What is kept of a call: what was called, on which settings, what it returned,
\* what it added to the current group, the counters before and after, the
\* status of the current group after it; for test() the calls of the callable, whether it ended by an exception, and the
\* groups moved to results.
SeqDone(c, at, T, r) ==
    [op |-> c.op, in |-> c.in, at |-> at, settings |-> T.settingsMap, threw |-> r.threw,
     ret |-> r.ret, appended |-> Appended(T, r.tester), before |-> Counts(T),
     after |-> Counts(r.tester), issued |-> <<>>, raised |-> FALSE, sealed |-> <<>>,
     status |-> r.tester.currentTestResult[1].status]

SeqTestDone(at, T, sub) ==
    [op |-> "test", in |-> sub.name, at |-> at, settings |-> T.settingsMap,
     threw |-> FALSE, ret |-> <<>>, appended |-> <<>>, before |-> Counts(T),
     after |-> Counts(T), issued |-> sub.log, raised |-> sub.raised,
     sealed |-> sub.tester.results, status |-> T.currentTestResult[1].status]

\* test() left by an exception: tempTester is destroyed with its groups.
SeqTestLeft(at, T, sub) ==
    [SeqTestDone(at, T, sub) EXCEPT !.threw = TRUE, !.raised = TRUE, !.sealed = <<>>]

RECURSIVE SeqOpsIn(_)
SeqOpsIn(log) ==
    IF log = <<>> THEN 0
    ELSE (IF Head(log).op = "test" THEN Len(Head(log).issued) ELSE 1) + SeqOpsIn(Tail(log))

SeqOpsIssued == SeqOpsIn(sqCalls) + (IF sqSub = <<>> THEN 0 ELSE Len(sqSub[1].log))

SeqTestsIssued ==
    Cardinality({n \in 1..Len(sqCalls) : sqCalls[n].op = "test"}) + Len(sqSub)

SeqOff ==
    /\ sq = NewTester
    /\ sqSub = <<>>
    /\ sqCalls = <<>>

\* The Tester after construction and at most one updateSetting(s, true).
SeqInit ==
    /\ sq \in {NewTester} \cup {updateSetting(NewTester, s, TRUE) : s \in ThrowSettings}
    /\ sqSub = <<>>
    /\ sqCalls = <<>>

\* The thread calls an assertion, addMessage, setStatus or printResults.
SeqCall(c) ==
    LET at == CallId("main", Len(sqCalls) + 1, 0)
        r  == CallOn(sq, c, at)
    IN  /\ sqSub = <<>>
        /\ SeqOpsIssued < MaxSeqOps
        /\ sq' = r.tester
        /\ sqCalls' = Append(sqCalls, SeqDone(c, at, sq, r))
        /\ UNCHANGED sqSub

\* test(testName, method): tempTester with a copy of the settings, and
\* testThreadSafe on it up to the call of the method.
SeqTestCall ==
    LET name == TestName("main", Len(sqCalls) + 1)
    IN  /\ sqSub = <<>>
        /\ SeqTestsIssued < MaxTests
        /\ sqSub' = <<[tester |-> testThreadSafeEnter(
                                      [NewTester EXCEPT !.settingsMap = sq.settingsMap], name),
                       name |-> name, log |-> <<>>, raised |-> FALSE, pc |-> "callable"]>>
        /\ UNCHANGED <<sq, sqCalls>>

\* The callable makes a call on the Tester it was handed.  An exception of the
\* call leaves the callable and is caught by testThreadSafe.
SeqCallableCall(c) ==
    LET sub == sqSub[1]
        at  == CallId("main", Len(sqCalls) + 1, Len(sub.log) + 1)
        r   == CallOn(sub.tester, c, at)
        log == Append(sub.log, SeqDone(c, at, sub.tester, r))
    IN  /\ sqSub # <<>>
        /\ sub.pc = "callable"
        /\ SeqOpsIssued < MaxSeqOps
        /\ IF IsUnhandled(r)
           THEN /\ sqSub' = <<>>
                /\ sqCalls' = Append(sqCalls,
                                     SeqTestLeft(CallId("main", Len(sqCalls) + 1, 0), sq,
                                                 [sub EXCEPT !.log = log]))
           ELSE /\ sqSub' = <<[sub EXCEPT
                                 !.tester = IF r.threw
                                            THEN testThreadSafeCatch(r.tester, r.what)
                                            ELSE r.tester,
                                 !.log = log,
                                 !.raised = r.threw,
                                 !.pc = IF r.threw THEN "leave" ELSE "callable"]>>
                /\ UNCHANGED sqCalls
        /\ UNCHANGED sq

\* The callable throws an exception of its own, derived from std::exception.
SeqCallableRaise ==
    /\ sqSub # <<>>
    /\ sqSub[1].pc = "callable"
    /\ sqSub' = <<[sqSub[1] EXCEPT !.tester = testThreadSafeCatch(@, <<"user">>),
                                   !.raised = TRUE,
                                   !.pc = "leave"]>>
    /\ UNCHANGED <<sq, sqCalls>>

\* The callable throws something that is not a std::exception: the catch of
\* testThreadSafe does not apply and the exception leaves test().
SeqCallableRaiseOther ==
    /\ sqSub # <<>>
    /\ sqSub[1].pc = "callable"
    /\ sqSub' = <<>>
    /\ sqCalls' = Append(sqCalls,
                         SeqTestLeft(CallId("main", Len(sqCalls) + 1, 0), sq, sqSub[1]))
    /\ UNCHANGED sq

SeqCallableReturn ==
    /\ sqSub # <<>>
    /\ sqSub[1].pc = "callable"
    /\ sqSub' = <<[sqSub[1] EXCEPT !.pc = "leave"]>>
    /\ UNCHANGED <<sq, sqCalls>>

\* testThreadSafe after the method: the group is sealed.
SeqTestLeave ==
    /\ sqSub # <<>>
    /\ sqSub[1].pc = "leave"
    /\ sqSub' = <<[sqSub[1] EXCEPT !.tester = testThreadSafeLeave(@), !.pc = "merge"]>>
    /\ UNCHANGED <<sq, sqCalls>>

\* A plausible slip: test() takes the settings of tempTester back.
SeqTestMergeSettings ==
    /\ sqSub # <<>>
    /\ sqSub[1].pc = "merge"
    /\ sq' = [sq EXCEPT !.results = @ \o sqSub[1].tester.results,
                        !.settingsMap = sqSub[1].tester.settingsMap]
    /\ sqCalls' = Append(sqCalls,
                         SeqTestDone(CallId("main", Len(sqCalls) + 1, 0), sq, sqSub[1]))
    /\ sqSub' = <<>>

\* test() moves the groups of tempTester to results; tempTester is destroyed.
SeqTestMerge ==
    /\ sqSub # <<>>
    /\ sqSub[1].pc = "merge"
    /\ sq' = [sq EXCEPT !.results = @ \o sqSub[1].tester.results]
    /\ sqCalls' = Append(sqCalls,
                         SeqTestDone(CallId("main", Len(sqCalls) + 1, 0), sq, sqSub[1]))
    /\ sqSub' = <<>>

(***************************************************************************)
(* THE OTHER ENTRY POINTS ON THE SHARED Tester: addMessage, setStatus,     *)
(* updateSetting, getSetting, testException and testRange, one step per    *)
(* access to what the threads share.  A thread whose callable under test   *)
(* runs is at "invoke".                                                    *)
(***************************************************************************)
SharedLocals(t, op, input) == Locals(op, CallId(t, Len(calls[t]) + 1, 0), input)

\* The process has died.
Aborted ==
    /\ tester' = NewTester
    /\ resultMutex' = "free" /\ testResultMutex' = "free" /\ settingsMutex' = "free"
    /\ pc' = [t \in Threads |-> "aborted"]
    /\ loc' = [t \in Threads |-> NoLocals]
    /\ tempTester' = [t \in Threads |-> <<>>]
    /\ calls' = [t \in Threads |-> <<>>]

\* addMessage: no lock is taken.  The arguments are evaluated, results.size()
\* among them, and emplace_back reads where printables ends.
AddMessageCall(t) ==
    /\ MayIssue(t)
    /\ loc' = [loc EXCEPT ![t] =
                  [SharedLocals(t, "addMessage", NoInput) EXCEPT
                      !.g = Len(tester.results) + 1,
                      !.seen = tester.currentTestResult[1].printables]]
    /\ pc' = [pc EXCEPT ![t] = "msgStore"]
    /\ UNCHANGED <<tester, resultMutex, testResultMutex, settingsMutex, tempTester, calls>>

\* addMessage: emplace_back writes the element after the end it read.
AddMessageStore(t) ==
    /\ pc[t] = "msgStore"
    /\ tester' = [tester EXCEPT !.currentTestResult[1] =
                     addPrintable([@ EXCEPT !.printables = loc[t].seen],
                                  TestMessage(<<"note">>, @.name, loc[t].g, "LOG"))]
    /\ Completes(t, FALSE, FALSE, <<>>)
    /\ UNCHANGED <<resultMutex, testResultMutex, settingsMutex, tempTester>>

\* Two emplace_back on the printables of the current group at once, that of
\* addMessage outside testResultMutex: the process may die on the vector's
\* storage.
GroupRaceAbort ==
    /\ \E t, u \in Threads :
          t # u /\ pc[t] = "msgStore" /\ pc[u] \in {"msgStore", "addStore"}
    /\ Aborted

\* setStatus: no lock is taken; currentTestResult is read ...
SetStatusCall(t) ==
    /\ MayIssue(t)
    /\ loc' = [loc EXCEPT ![t] = SharedLocals(t, "setStatus", NoInput)]
    /\ pc' = [pc EXCEPT ![t] = "statusStore"]
    /\ UNCHANGED <<tester, resultMutex, testResultMutex, settingsMutex, tempTester, calls>>

\* ... and the status of the group written.
SetStatusStore(t) ==
    /\ pc[t] = "statusStore"
    /\ tester' = TesterSetStatus(tester, "FAILURE")
    /\ Completes(t, FALSE, FALSE, <<>>)
    /\ UNCHANGED <<resultMutex, testResultMutex, settingsMutex, tempTester>>

\* updateSetting(THROW_ON_FAIL, true): settingsMutex is taken ...
UpdateSettingLock(t) ==
    /\ MayIssue(t)
    /\ Lockable(settingsMutex)
    /\ settingsMutex' = t
    /\ loc' = [loc EXCEPT ![t] = SharedLocals(t, "updateSetting", NoInput)]
    /\ pc' = [pc EXCEPT ![t] = "updStore"]
    /\ UNCHANGED <<tester, resultMutex, testResultMutex, tempTester, calls>>

\* ... settingsMap[setting] = newSetting, and the lock is released.  The node
\* the assignment inserts may be lost to a lookup made outside the lock.
UpdateSettingStore(t) ==
    /\ pc[t] = "updStore"
    /\ \E lost \in {FALSE} \cup (IF Racing(t) /\ Inserts("THROW_ON_FAIL")
                                 THEN {TRUE} ELSE {}) :
          tester' = IF lost THEN tester ELSE updateSetting(tester, "THROW_ON_FAIL", TRUE)
    /\ settingsMutex' = "free"
    /\ Completes(t, FALSE, FALSE, <<>>)
    /\ UNCHANGED <<resultMutex, testResultMutex, tempTester>>

\* getSetting(THROW_ON_ERROR): settingsMutex is taken ...
GetSettingLock(t) ==
    /\ MayIssue(t)
    /\ Lockable(settingsMutex)
    /\ settingsMutex' = t
    /\ loc' = [loc EXCEPT ![t] = SharedLocals(t, "getSetting", NoInput)]
    /\ pc' = [pc EXCEPT ![t] = "getLookup"]
    /\ UNCHANGED <<tester, resultMutex, testResultMutex, tempTester, calls>>

\* ... return settingsMap[setting], and the lock is released.
GetSettingLookup(t) ==
    /\ pc[t] = "getLookup"
    /\ \E o \in LookupOutcomes(t, "THROW_ON_ERROR") :
          /\ tester' = [tester EXCEPT !.settingsMap = o.map]
          /\ Completes(t, FALSE, o.value, <<>>)
    /\ settingsMutex' = "free"
    /\ UNCHANGED <<resultMutex, testResultMutex, tempTester>>

\* A plausible slip: testException takes testResultMutex before it calls the method.
TestExceptionCallLocked(t, b) ==
    /\ MayIssue(t)
    /\ Lockable(testResultMutex)
    /\ testResultMutex' = t
    /\ loc' = [loc EXCEPT ![t] = SharedLocals(t, "testException", b)]
    /\ pc' = [pc EXCEPT ![t] = "invoke"]
    /\ UNCHANGED <<tester, resultMutex, settingsMutex, tempTester, calls>>

\* testException("a", message, method): the method is called.
TestExceptionCall(t, b) ==
    /\ MayIssue(t)
    /\ loc' = [loc EXCEPT ![t] = SharedLocals(t, "testException", b)]
    /\ pc' = [pc EXCEPT ![t] = "invoke"]
    /\ UNCHANGED <<tester, resultMutex, testResultMutex, settingsMutex, tempTester, calls>>

\* The method has returned or thrown: the Result is built, with
\* results.size() + 1, and handed to addResult.  An exception that is not a
\* std::exception leaves testException.
TestExceptionInvoked(t) ==
    LET r == TestExceptionOn(tester, <<"a">>, loc[t].input)
    IN  /\ pc[t] = "invoke"
        /\ loc[t].op = "testException"
        /\ IF IsUnhandled(r)
           THEN Completes(t, TRUE, FALSE, <<>>)
           ELSE /\ loc' = [loc EXCEPT ![t].res = r.ret, ![t].state = r.ret[1].state]
                /\ pc' = [pc EXCEPT ![t] = "addLock"]
                /\ UNCHANGED calls
        /\ UNCHANGED <<tester, resultMutex, testResultMutex, settingsMutex, tempTester>>

\* testRange(0, 1, {1}, method) with a method that returns 2 for 0 and 1 for 1
SharedRangeInput ==
    [from |-> 0, to |-> 1, expected |-> <<1>>,
     fn |-> [i \in 0..1 |-> [kind |-> "ret", value |-> IF i = 0 THEN 2 ELSE 1]]]

\* testRange is called: the TestRange object takes getNextGroupNum().
TestRangeCall(t) ==
    /\ MayIssue(t)
    /\ loc' = [loc EXCEPT ![t] =
                  [SharedLocals(t, "testRange", SharedRangeInput) EXCEPT !.path = "range"]]
    /\ pc' = [pc EXCEPT ![t] = "groupLoad"]
    /\ UNCHANGED <<tester, resultMutex, testResultMutex, settingsMutex, tempTester, calls>>

\* RunAllArgs has called the method for every index; its Results are handed to
\* addResult one after the other.
TestRangeInvoked(t) ==
    LET in  == loc[t].input
        obj == TestRange(in.from, in.to, in.expected, <<>>, loc[t].g)
        rs  == RunAllArgsFrom(obj, in.fn, obj.from, 0)
    IN  /\ pc[t] = "invoke"
        /\ loc[t].op = "testRange"
        /\ IF rs = <<>>
           THEN Completes(t, FALSE, FALSE, <<>>)
           ELSE /\ loc' = [loc EXCEPT ![t].res = rs]
                /\ pc' = [pc EXCEPT ![t] = "addLock"]
                /\ UNCHANGED calls
        /\ UNCHANGED <<tester, resultMutex, testResultMutex, settingsMutex, tempTester>>

(***************************************************************************)
(* CommonLib::escapeString, called on its own on every string over         *)
(* EscChars.  A character is named: "a" an ordinary letter, "quote" the    *)
(* double quote, "backslash", "newline", "space".                          *)
(***************************************************************************)
EscChars   == {"a", "quote", "backslash", "newline", "space"}
WhiteSpace == {"newline", "space"}

\* std::regex slash(R"((\\|\S|\s))"): a backslash, or a character that is not
\* white space, or one that is
SlashMatches(ch) == ch = "backslash" \/ ch \notin WhiteSpace \/ ch \in WhiteSpace

\* std::regex quote("\"")
QuoteMatches(ch) == ch = "quote"

\* std::regex_replace(str, re, fmt) for a regex that matches single characters,
\* given as the set of characters it matches: every match is replaced by fmt,
\* the other characters are copied.
RECURSIVE regex_replace(_, _, _)
regex_replace(str, matching, fmt) ==
    IF str = <<>> THEN <<>>
    ELSE (IF Head(str) \in matching THEN fmt ELSE <<Head(str)>>) \o
         regex_replace(Tail(str), matching, fmt)

\* CommonLib::escapeString: the matches of slash are replaced by "", then the
\* quotes of what is left by \".  The vector escapes is not used.
escapeString(str) ==
    LET temp == regex_replace(str, {ch \in EscChars : SlashMatches(ch)}, <<>>)
    IN  regex_replace(temp, {ch \in EscChars : QuoteMatches(ch)}, <<"backslash", "quote">>)

EscOff ==
    /\ escStr = <<>>
    /\ escPc = "off"
    /\ escOut = <<>>

EscInit ==
    /\ escStr \in SeqsUpTo(EscChars, MaxEscLen)
    /\ escPc = "call"
    /\ escOut = <<>>

CallEscapeString ==
    /\ escPc = "call"
    /\ escOut' = escapeString(escStr)
    /\ escPc' = "done"
    /\ UNCHANGED escStr

(***************************************************************************)
(* SPECIFICATIONS of the parts that run on their own.                      *)
(***************************************************************************)
InitCmp == CmpInit /\ DiffOff /\ RngOff /\ TvOff /\ TstOff /\ SeqOff /\ EscOff
NextCmp ==
    \/ CallIsEqual /\ UNCHANGED <<diffVars, rngVars, tvVars, tstVars, seqVars, escVars>>
    \/ CallToString /\ UNCHANGED <<diffVars, rngVars, tvVars, tstVars, seqVars, escVars>>
SpecCmp == InitCmp /\ [][NextCmp]_vars

InitDiff == CmpOff /\ DiffInit /\ RngOff /\ TvOff /\ TstOff /\ SeqOff /\ EscOff
NextDiff ==
    \/ calculateDiffLoop1 /\ UNCHANGED <<cmpVars, rngVars, tvVars, tstVars, seqVars, escVars>>
    \/ calculateDiffTail /\ UNCHANGED <<cmpVars, rngVars, tvVars, tstVars, seqVars, escVars>>
    \/ calculateDiffLoop2 /\ UNCHANGED <<cmpVars, rngVars, tvVars, tstVars, seqVars, escVars>>
SpecDiff == InitDiff /\ [][NextDiff]_vars

InitRange == CmpOff /\ DiffOff /\ RngInit /\ TvOff /\ TstOff /\ SeqOff /\ EscOff
NextRange ==
    \/ RunAllArgsEnter /\ UNCHANGED <<cmpVars, diffVars, tvVars, tstVars, seqVars, escVars>>
    \/ RunAllArgsLoop /\ UNCHANGED <<cmpVars, diffVars, tvVars, tstVars, seqVars, escVars>>
    \/ RunAllArgsReturn /\ UNCHANGED <<cmpVars, diffVars, tvVars, tstVars, seqVars, escVars>>
SpecRange == InitRange /\ [][NextRange]_vars

\* A TestRange run, set up again by UpdateTest and run a second time.
NextRerun ==
    \/ NextRange
    \/ \E From \in {0, 1}, To \in {1, 2} :
          UpdateTest(From, To) /\ UNCHANGED <<cmpVars, diffVars, tvVars, tstVars, seqVars, escVars>>
SpecRerun == InitRange /\ [][NextRerun]_vars

InitTwoVector == CmpOff /\ DiffOff /\ RngOff /\ TvInit /\ TstOff /\ SeqOff /\ EscOff
NextTwoVector ==
    \/ TwoVectorLoop /\ UNCHANGED <<cmpVars, diffVars, rngVars, tstVars, seqVars, escVars>>
    \/ TwoVectorReturn /\ UNCHANGED <<cmpVars, diffVars, rngVars, tstVars, seqVars, escVars>>
SpecTwoVector == InitTwoVector /\ [][NextTwoVector]_vars

InitEscape == CmpOff /\ DiffOff /\ RngOff /\ TvOff /\ TstOff /\ SeqOff /\ EscInit
NextEscape ==
    CallEscapeString /\ UNCHANGED <<cmpVars, diffVars, rngVars, tvVars, tstVars, seqVars>>
SpecEscape == InitEscape /\ [][NextEscape]_vars

(***************************************************************************)
(* SPECIFICATION of the threads on the shared Tester.                      *)
(***************************************************************************)
Init == CmpOff /\ DiffOff /\ RngOff /\ TvOff /\ TstInit /\ SeqOff /\ EscOff

Elsewhere == UNCHANGED <<cmpVars, diffVars, rngVars, tvVars, seqVars, escVars>>

Next ==
    \/ \E t \in Threads, in \in TestOneInputs : TestOneCall(t, in) /\ Elsewhere
    \/ \E t \in Threads : GetNextGroupNumLoad(t) /\ Elsewhere
    \/ \E t \in Threads : GetNextGroupNumStore(t) /\ Elsewhere
    \/ \E t \in Threads : TestOneFailCheck(t) /\ Elsewhere
    \/ \E t \in Threads : TestOneFailStatus(t) /\ Elsewhere
    \/ \E t \in Threads : TestOneCatch(t) /\ Elsewhere
    \/ \E t \in Threads : AddResultLock(t) /\ Elsewhere
    \/ \E t \in Threads : AddResultStore(t) /\ Elsewhere
    \/ \E t \in Threads : AddResultCount(t) /\ Elsewhere
    \/ \E t \in Threads : TestCall(t) /\ Elsewhere
    \/ \E t \in Threads, in \in TestOneInputs : CallableAssert(t, in) /\ Elsewhere
    \/ \E t \in Threads : CallableRaise(t) /\ Elsewhere
    \/ \E t \in Threads : CallableReturn(t) /\ Elsewhere
    \/ \E t \in Threads : TestThreadSafeLeave(t) /\ Elsewhere
    \/ \E t \in Threads : TestMergeLock(t) /\ Elsewhere
    \/ \E t \in Threads : TestMergeStore(t) /\ Elsewhere
    \/ SettingsRaceAbort /\ Elsewhere

Spec == Init /\ [][Next]_vars

(***************************************************************************)
(* SPECIFICATION of the threads on the shared Tester, every entry point.   *)
(***************************************************************************)
NextShared ==
    \/ Next
    \/ \E t \in Threads : AddMessageCall(t) /\ Elsewhere
    \/ \E t \in Threads : AddMessageStore(t) /\ Elsewhere
    \/ \E t \in Threads : SetStatusCall(t) /\ Elsewhere
    \/ \E t \in Threads : SetStatusStore(t) /\ Elsewhere
    \/ \E t \in Threads : UpdateSettingLock(t) /\ Elsewhere
    \/ \E t \in Threads : UpdateSettingStore(t) /\ Elsewhere
    \/ \E t \in Threads : GetSettingLock(t) /\ Elsewhere
    \/ \E t \in Threads : GetSettingLookup(t) /\ Elsewhere
    \/ \E t \in Threads, b \in ExceptionBehaviours : TestExceptionCall(t, b) /\ Elsewhere
    \/ \E t \in Threads : TestExceptionInvoked(t) /\ Elsewhere
    \/ \E t \in Threads : TestRangeCall(t) /\ Elsewhere
    \/ \E t \in Threads : TestRangeInvoked(t) /\ Elsewhere
    \/ GroupRaceAbort /\ Elsewhere

SpecShared == Init /\ [][NextShared]_vars

(***************************************************************************)
(* SPECIFICATION of the operations that take a mutex, under fair           *)
(* scheduling: testOne with its addResult, updateSetting, and test() with  *)
(* a callable that returns or throws.  A thread that can take the next     *)
(* step of the operation it is in, the end of its callable included,       *)
(* eventually takes it or another one; a thread waiting for a mutex can    *)
(* take its step when the mutex is free.  Nothing obliges a thread to      *)
(* start an operation.                                                     *)
(***************************************************************************)
\* The steps of thread t inside an operation it has started.
StepOf(t) ==
    \/ GetNextGroupNumLoad(t) \/ GetNextGroupNumStore(t)
    \/ TestOneFailCheck(t) \/ TestOneFailStatus(t) \/ TestOneCatch(t)
    \/ AddResultLock(t) \/ AddResultStore(t) \/ AddResultCount(t)
    \/ CallableRaise(t) \/ CallableReturn(t)
    \/ TestThreadSafeLeave(t) \/ TestMergeLock(t) \/ TestMergeStore(t)
    \/ UpdateSettingStore(t)

NextFair ==
    \/ \E t \in Threads, in \in TestOneInputs : TestOneCall(t, in) /\ Elsewhere
    \/ \E t \in Threads : TestCall(t) /\ Elsewhere
    \/ \E t \in Threads : UpdateSettingLock(t) /\ Elsewhere
    \/ \E t \in Threads : StepOf(t) /\ Elsewhere
    \/ SettingsRaceAbort /\ Elsewhere

SpecFair ==
    /\ Init
    /\ [][NextFair]_vars
    /\ \A t \in Threads : WF_vars(StepOf(t) /\ Elsewhere)

(***************************************************************************)
(* SPECIFICATION of one thread on a Tester.                                *)
(***************************************************************************)
InitSeq == CmpOff /\ DiffOff /\ RngOff /\ TvOff /\ TstOff /\ SeqInit /\ EscOff

ElsewhereSeq == UNCHANGED <<cmpVars, diffVars, rngVars, tvVars, tstVars, escVars>>

NextSeq ==
    \/ \E c \in SeqInputs : SeqCall(c) /\ ElsewhereSeq
    \/ SeqTestCall /\ ElsewhereSeq
    \/ \E c \in SeqInputs : SeqCallableCall(c) /\ ElsewhereSeq
    \/ SeqCallableRaise /\ ElsewhereSeq
    \/ SeqCallableRaiseOther /\ ElsewhereSeq
    \/ SeqCallableReturn /\ ElsewhereSeq
    \/ SeqTestLeave /\ ElsewhereSeq
    \/ SeqTestMerge /\ ElsewhereSeq

SpecSeq == InitSeq /\ [][NextSeq]_vars

(***************************************************************************)
(* PROPERTIES of isEqual and toString, checked under SpecCmp.              *)
(***************************************************************************)
\* The text a value was built from: a character literal without its terminator.
TextHeld(v) ==
    IF v.kind = "cstr" THEN SubSeq(v.chars, 1, Len(v.chars) - 1) ELSE v.chars

FallbackVerdict(p) == toString(p.expected) = toString(p.actual)

\* The verdict of the chain string, ==, equals, fallback.
VerdictOperatorFirst(p) ==
    IF canBeStringCompared(p.actual, p.expected) THEN TextHeld(p.actual) = TextHeld(p.expected)
    ELSE IF p.hasOp THEN p.opRes
    ELSE IF p.hasEq THEN p.eqRes
    ELSE FallbackVerdict(p)

\* The verdict of the chain string, equals, ==, fallback.
VerdictEqualsFirst(p) ==
    IF canBeStringCompared(p.actual, p.expected) THEN TextHeld(p.actual) = TextHeld(p.expected)
    ELSE IF p.hasEq THEN p.eqRes
    ELSE IF p.hasOp THEN p.opRes
    ELSE FallbackVerdict(p)

\* C3, as stated: isEqual decides by the first applicable step of the chain
\* string, equals, ==, fallback; a pair offering both equals and == gets the
\* verdict of equals.
C3_EqualsBeforeOperator ==
    (cmpPc = "isEqual" /\ ~cmpOut.thrown) => cmpOut.value = VerdictEqualsFirst(cmpPair)

\* C3, amended: isEqual decides by the first applicable step of the chain
\* string, ==, equals, fallback; a pair offering both equals and == gets the
\* verdict of ==.
C3_OperatorBeforeEquals ==
    (cmpPc = "isEqual" /\ ~cmpOut.thrown) => cmpOut.value = VerdictOperatorFirst(cmpPair)

\* A pair that is not text, offers both == and equals, and on which the two disagree.
C3_BothOfferedDisagree ==
    /\ cmpPc = "isEqual"
    /\ ~canBeStringCompared(cmpPair.actual, cmpPair.expected)
    /\ cmpPair.hasOp /\ cmpPair.hasEq
    /\ cmpPair.opRes /\ ~cmpPair.eqRes
    /\ ~cmpOut.thrown /\ cmpOut.value

\* C4: for two text-convertible values, isEqual(a, b, false) is true exactly
\* when the texts they hold are identical, whatever the two representations.
C4_TextEquality ==
    (cmpPc = "isEqual" /\ ~cmpAlias /\ StringConvertible(cmpPair.actual)
        /\ StringConvertible(cmpPair.expected))
    => /\ ~cmpOut.thrown
       /\ cmpOut.value = (TextHeld(cmpPair.actual) = TextHeld(cmpPair.expected))

\* A std::string and a character literal holding the same non-empty text compare equal.
C4_StringAgainstLiteral ==
    /\ cmpPc = "isEqual" /\ ~cmpAlias
    /\ cmpPair.actual.kind = "string" /\ cmpPair.expected.kind = "cstr"
    /\ Len(cmpPair.actual.chars) = 2
    /\ ~cmpOut.thrown /\ cmpOut.value

\* C5: isEqual raises the alias error if and only if throwOnAlias is set, none
\* of the string, equals and == steps applies, and the fallback comparison
\* returned true.
C5_AliasErrorIff ==
    cmpPc = "isEqual" =>
        (cmpOut.thrown <=>
            /\ cmpAlias
            /\ ~canBeStringCompared(cmpPair.actual, cmpPair.expected)
            /\ ~cmpPair.hasEq /\ ~cmpPair.hasOp
            /\ FallbackVerdict(cmpPair))

\* The alias error raised on a pair only the fallback step can compare.
C5_AliasRaised ==
    /\ cmpPc = "isEqual" /\ cmpOut.thrown /\ cmpOut.what = "alias"
    /\ cmpAlias /\ ~cmpPair.hasEq /\ ~cmpPair.hasOp

\* C6, as stated: toString renders a boolean as the literal "true" or "false",
\* never as "1" or "0".
C6_BoolAsLiteral ==
    (cmpPc = "toString" /\ cmpPair.actual.kind = "bool")
    => cmpOut.value = BoolLiteral(cmpPair.actual.b)

(***************************************************************************)
(* PROPERTIES of StringCompare::calculateDiff, checked under SpecDiff.     *)
(***************************************************************************)
Abs(n) == IF n < 0 THEN 0 - n ELSE n

\* The positions both strings have at which their characters differ.
DifferingPositions(e, a) == {i \in 1..Min(Len(e), Len(a)) : e[i] # a[i]}

\* The rendering of s against other, from position i on: a character that
\* differs at a shared position carries the mismatch highlight, a character
\* past the end of other the extra highlight, an equal character none.
RECURSIVE RenderingFrom(_, _, _)
RenderingFrom(s, other, i) ==
    IF i > Len(s) THEN <<>>
    ELSE (IF i > Len(other) THEN <<YELLOW, s[i], RESET>>
          ELSE IF s[i] # other[i] THEN <<RED, s[i], RESET>>
          ELSE <<s[i]>>) \o RenderingFrom(s, other, i + 1)

\* C7: the diff count is the number of shared positions at which the
\* characters differ plus the difference of the lengths; differing characters
\* are marked as mismatch in both renderings, characters past the shorter
\* length as extra in the longer string's rendering only, equal characters
\* not at all.
C7_DiffCountAndMarks ==
    diffPc = "done" =>
        /\ diffs = Cardinality(DifferingPositions(expectedStr, actualStr))
                     + Abs(Len(expectedStr) - Len(actualStr))
        /\ diffExpected = RenderingFrom(expectedStr, actualStr, 1)
        /\ diffActual = RenderingFrom(actualStr, expectedStr, 1)

\* diff("ab", "abab"): two diffs, the last two characters of actual marked extra.
C7_ActualLonger ==
    /\ diffPc = "done"
    /\ expectedStr = <<"a", "b">> /\ actualStr = <<"a", "b", "a", "b">>
    /\ diffs = 2
    /\ diffExpected = <<"a", "b">>
    /\ diffActual = <<"a", "b", YELLOW, "a", RESET, YELLOW, "b", RESET>>

\* C8: diffing a string against itself gives zero diffs and both renderings
\* equal to the string, no highlight inserted.
C8_SelfDiff ==
    (diffPc = "done" /\ expectedStr = actualStr) =>
        /\ diffs = 0
        /\ diffExpected = expectedStr
        /\ diffActual = actualStr

\* A string of three characters diffed against itself.
C8_SelfDiffDone ==
    /\ diffPc = "done"
    /\ expectedStr = actualStr /\ Len(expectedStr) = 3
    /\ diffs = 0 /\ diffActual = actualStr

(***************************************************************************)
(* PROPERTIES of TestRange::RunAllArgs, checked under SpecRange.           *)
(***************************************************************************)
\* The range value of the k-th invocation, k counted from 0.
RangeValue(k) == rng.from + k

\* C9: with a non-empty expected sequence the verdict of the k-th invocation
\* (k from 0) is isEqual(callable(from + k), expected[min(k, size - 1)]): the
\* last element is reused once the sequence is exhausted.
C9_LastExpectedReused ==
    rng.expected # <<>> =>
        \A k \in 0..(Len(rng.results) - 1) :
            rngFn[RangeValue(k)].kind = "ret" =>
                LET e == rng.expected[Min(k, Len(rng.expected) - 1) + 1]
                    v == rngFn[RangeValue(k)].value
                IN  /\ rng.results[k + 1].state = isEqual(IntPair(v, e), FALSE).value
                    /\ rng.results[k + 1].message.text.expected = e

\* Two different expected values, four invocations: the third and the fourth
\* are compared against the second expected value, and pass.
C9_PastTheEnd ==
    /\ rngPc = "returned"
    /\ Len(rng.expected) = 2 /\ rng.expected[1] # rng.expected[2]
    /\ Len(rngRet) = 4
    /\ \A k \in 2..3 : /\ rngFn[RangeValue(k)].kind = "ret"
                       /\ rngFn[RangeValue(k)].value = rng.expected[2]
                       /\ rngRet[k + 1].state

Current == tester.currentTestResult[1]

\* The operations op the threads have completed.
Completed(op) ==
    {c \in UNION {{calls[t][i] : i \in 1..Len(calls[t])} : t \in Threads} : c.op = op}

NoThrowSettingActive == \A s \in ThrowSettings : tester.settingsMap[s] # "true"

Quiescent == \A t \in Threads : pc[t] = "idle"

\* The positions of a group's items that are the Result of the call at.
ResultsOf(group, at) ==
    {i \in 1..Len(group.printables) :
        group.printables[i].type = "result" /\ group.printables[i].message.at = at}

RECURSIVE IssuersFrom(_, _)
IssuersFrom(group, i) ==
    IF i > Len(group.printables) THEN <<>>
    ELSE (IF group.printables[i].type = "result"
          THEN <<group.printables[i].message.at>> ELSE <<>>) \o IssuersFrom(group, i + 1)

\* The positions in the shared Tester's completed list of the group named testName.
SealedAs(testName) == {j \in 1..Len(tester.results) : tester.results[j].name = testName}

InputBehaviour(k) == tvFn[tv.actual[k]]

NoInputRaises == \A k \in 1..Len(tv.actual) : InputBehaviour(k).kind = "ret"

\* The Results returned for input number k.
ReturnedFor(k) == {j \in 1..Len(tvRet) : tvRet[j].testNum = k}

\* C11, as stated: with a non-empty expected sequence every input yields exactly
\* one Outcome, whose verdict compares the returned value with
\* expected[min(i, length - 1)], also when expected is shorter than the inputs;
\* the number of Outcomes is the number of inputs.
C11_OneOutcomePerInput ==
    (tvPc = "returned" /\ tv.expected # <<>> /\ NoInputRaises)
    => /\ Len(tvRet) = Len(tv.actual)
       /\ \A k \in 1..Len(tv.actual) :
             /\ tvRet[k].testNum = k
             /\ tvRet[k].state =
                   (InputBehaviour(k).value = tv.expected[Min(k, Len(tv.expected))])

\* C12, as stated: an invocation that raises at input k gives a failing Outcome
\* at k that carries the error text, the later Outcomes are still produced, and
\* there are as many Outcomes as inputs.  (Stated for an expected sequence that
\* covers every input.)
C12_RaiseGivesFailingOutcome ==
    (tvPc = "returned" /\ tv.expected # <<>> /\ Len(tv.expected) >= Len(tv.actual))
    => /\ Len(tvRet) = Len(tv.actual)
       /\ \A k \in 1..Len(tv.actual) :
             InputBehaviour(k).kind = "raise"
             => /\ ~tvRet[k].state
                /\ tvRet[k].message.text.what = InputBehaviour(k).what

\* C13, as stated: without an expected sequence the Outcome of an input passes
\* exactly when the callable did not raise for it.
C13_PassesIffNoRaise ==
    (tvPc = "returned" /\ tv.expected = <<>>)
    => \A k \in 1..Len(tv.actual) :
          (\E j \in ReturnedFor(k) : tvRet[j].state) <=> (InputBehaviour(k).kind = "ret")

(***************************************************************************)
(* PROPERTIES of one thread on a Tester, checked under SpecSeq.            *)
(***************************************************************************)
\* The sequences of calls made on one Tester: by the thread, and by the callable
\* of each delegated test.
CallableLogs ==
    {sqCalls[n].issued : n \in {m \in 1..Len(sqCalls) : sqCalls[m].op = "test"}} \cup
    {sqSub[n].log : n \in 1..Len(sqSub)}

SeqLogs == {sqCalls} \cup CallableLogs

SeqMade == UNION {{log[n] : n \in 1..Len(log)} : log \in SeqLogs}

AssertionOps == {"testOne", "testFloat", "testType", "testRange", "testException"}

NoThrowSetting(c) == \A st \in ThrowSettings : c.settings[st] # "true"

ThrowOnFailSet(c) == c.settings["THROW_ON_FAIL"] = "true"

\* The Results among the printables a call added to the current group.
Outcomes(c) == {k \in 1..Len(c.appended) : c.appended[k].type = "result"}

\* The pair of a testOne call compares equal (the comparison returns).
PairEqual(c) == ~c.in.raises /\ isEqual(c.in.pair, FALSE).value

\* C14, as stated: with no throw setting, testOne adds exactly one Outcome to
\* the current group and returns a Result with the same verdict and group
\* number and test number 1; the Outcome passes exactly when isEqual holds, and
\* its message carries the renderings of the two values.
C14_TestOneRecordsAndReturns ==
    \A c \in SeqMade :
        (c.op = "testOne" /\ NoThrowSetting(c))
        => /\ Len(c.appended) = 1 /\ Outcomes(c) = {1}
           /\ c.after[2] = c.before[2] + 1
           /\ Len(c.ret) = 1
           /\ c.ret[1].state = c.appended[1].state
           /\ c.ret[1].groupNum = c.appended[1].groupNum
           /\ c.ret[1].testNum = 1 /\ c.appended[1].testNum = 1
           /\ c.appended[1].state = PairEqual(c)
           /\ ~c.in.raises
              => /\ c.appended[1].message.text.was = toString(c.in.pair.actual)
                 /\ c.appended[1].message.text.expected = toString(c.in.pair.expected)

\* C15: testType adds one Outcome per index below both lengths, in order, with
\* test numbers 1, 2, ...; the i-th passes exactly when the i-th elements are
\* equal; the counters of the current group grow by the number of Outcomes and
\* by the number of passing ones.
C15_TestTypePerIndex ==
    \A c \in SeqMade :
        c.op = "testType"
        => LET n == Min(Len(c.in.actual), Len(c.in.expected))
           IN  /\ Len(c.appended) = n
               /\ c.ret = c.appended
               /\ \A k \in 1..n :
                     /\ c.appended[k].type = "result"
                     /\ c.appended[k].testNum = k
                     /\ c.appended[k].state = (c.in.actual[k] = c.in.expected[k])
               /\ c.after[2] = c.before[2] + n
               /\ c.after[1] = c.before[1] +
                     Cardinality({k \in 1..n : c.in.actual[k] = c.in.expected[k]})

\* testType on two sequences of different lengths whose second elements differ
\* has added two Outcomes, the first passing and the second failing.
C15_SecondOfTwoFails ==
    \E n \in 1..Len(sqCalls) :
        /\ sqCalls[n].op = "testType"
        /\ sqCalls[n].in.actual = <<1, 2>> /\ sqCalls[n].in.expected = <<1, 1>>
        /\ sqCalls[n].after = <<sqCalls[n].before[1] + 1, sqCalls[n].before[2] + 2>>
        /\ ~sqCalls[n].appended[2].state

\* C16, as stated: every assertion call on a Tester gets a group number strictly
\* greater than that of every earlier call, and all Outcomes of one call carry
\* the same group number.
C16_GroupNumberIsCallOrdinal ==
    \A log \in SeqLogs :
        \A i, j \in 1..Len(log) :
            (log[i].op \in AssertionOps /\ log[j].op \in AssertionOps)
            => \A x \in Outcomes(log[i]), y \in Outcomes(log[j]) :
                  /\ i < j => log[i].appended[x].groupNum < log[j].appended[y].groupNum
                  /\ i = j => log[i].appended[x].groupNum = log[j].appended[y].groupNum

\* The groups of a Tester: the current one, the one set aside, the completed.
GroupsOf(T) ==
    {T.currentTestResult[n] : n \in 1..Len(T.currentTestResult)} \cup
    {T.defaultTestResult[n] : n \in 1..Len(T.defaultTestResult)} \cup
    {T.results[n] : n \in 1..Len(T.results)}

SeqGroups == GroupsOf(sq) \cup UNION {GroupsOf(sqSub[n].tester) : n \in 1..Len(sqSub)}

ResultItems(g) == {k \in 1..Len(g.printables) : g.printables[k].type = "result"}

\* C17: in every state and for every group, current or completed, the number
\* passing is at most the total, the total is the number of Results held and the
\* number passing the number of those that passed; messages count toward
\* neither.
C17_CountersMatchResults ==
    \A g \in SeqGroups :
        /\ g.numPassing <= g.numTotal
        /\ g.numTotal = Cardinality(ResultItems(g))
        /\ g.numPassing = Cardinality({k \in ResultItems(g) : g.printables[k].state})

\* A group holds a message, a passing and a failing Result.
C17_GroupWithNoteAndResults ==
    \E g \in SeqGroups :
        /\ \E k \in 1..Len(g.printables) : g.printables[k].type = "testMessage"
        /\ \E k \in ResultItems(g) : g.printables[k].state
        /\ \E k \in ResultItems(g) : ~g.printables[k].state

\* C18: a Tester always has exactly one current group: the Tester the thread
\* uses, and the tempTester of a delegated test from the call of the callable
\* until it is destroyed.
C18_OneCurrentGroup ==
    /\ Len(sq.currentTestResult) = 1
    /\ \A n \in 1..Len(sqSub) : Len(sqSub[n].tester.currentTestResult) = 1

\* A delegated test whose callable ended by an exception has been sealed, after
\* the Tester has seen an assertion and a message.
C18_AfterRaisingCallable ==
    /\ sqSub # <<>> /\ sqSub[1].pc = "merge"
    /\ sqSub[1].tester.results[1].status = "FAILURE_EARLY"
    /\ \E n \in 1..Len(sqCalls) : sqCalls[n].op \in AssertionOps \cup {"addMessage"}

\* An assertion call failed: it ended by an exception or added a failing Outcome.
Failed(c) ==
    /\ c.op \in AssertionOps
    /\ c.threw \/ \E k \in Outcomes(c) : ~c.appended[k].state

\* C19, as stated: with THROW_ON_FAIL set, the first failing assertion of a
\* callable ends the delegated test by raising, whichever entry point issued
\* it: the callable makes no call after it.
C19_FirstFailureAborts ==
    \A log \in CallableLogs :
        \A i \in 1..Len(log) :
            (ThrowOnFailSet(log[i]) /\ Failed(log[i]))
            => log[i].threw /\ i = Len(log)

\* C20, as stated: also with THROW_ON_FAIL set, a failing testOne adds its
\* failing Outcome to the current group and counts it before the exception
\* leaves the call.
C20_FailureRecordedBeforeThrow ==
    \A c \in SeqMade :
        (c.op = "testOne" /\ ThrowOnFailSet(c) /\ ~c.in.raises /\ ~PairEqual(c))
        => /\ \E k \in Outcomes(c) : ~c.appended[k].state
           /\ c.after[2] = c.before[2] + 1



(***************************************************************************)
(* PROPERTIES of test() and testException, checked under SpecSeq.          *)
(***************************************************************************)
\* The printables the calls of a log added, in the order of the calls.
RECURSIVE AppendedBy(_)
AppendedBy(log) ==
    IF log = <<>> THEN <<>> ELSE Head(log).appended \o AppendedBy(Tail(log))

TestsDone == {n \in 1..Len(sqCalls) : sqCalls[n].op = "test"}

IsFailNote(p) == p.type = "testMessage" /\ p.messageType = "FAIL"

\* C21, as stated: an exception raised inside the callable of test(name,
\* callable), by the callable itself or by a throw setting, does not leave
\* test(): the call returns normally, the group named name is among the
\* parent's completed groups with status FAILURE_EARLY and a FAIL note, and it
\* holds every Outcome recorded before the exception.
C21_CallableExceptionContained ==
    \A n \in TestsDone :
        LET c == sqCalls[n]
        IN  c.raised =>
              /\ ~c.threw
              /\ Len(c.sealed) = 1
              /\ \E m \in 1..Len(sq.results) : sq.results[m] = c.sealed[1]
              /\ LET g == c.sealed[1]
                 IN  /\ g.name = c.in
                     /\ g.status = "FAILURE_EARLY"
                     /\ Len(g.printables) = Len(AppendedBy(c.issued)) + 1
                     /\ SubSeq(g.printables, 1, Len(g.printables) - 1) = AppendedBy(c.issued)
                     /\ IsFailNote(g.printables[Len(g.printables)])


\* C22, as stated: testException(expectedText, message, callable) appends
\* exactly one Outcome in every case and lets no exception of the callable
\* reach the caller; the Outcome passes exactly when the callable raised an
\* exception whose what() equals expectedText, and fails when nothing was
\* raised or the text differs.  (The calls of the model expect the text "a".)
C22_TestExceptionOneOutcome ==
    \A c \in SeqMade :
        c.op = "testException" =>
            /\ ~c.threw
            /\ Len(c.appended) = 1
            /\ Outcomes(c) = {1}
            /\ c.after[2] = c.before[2] + 1
            /\ c.appended[1].state = (c.in.kind = "raise" /\ c.in.what = <<"a">>)
            /\ c.ret = c.appended


\* test() has been entered by this step.
TestStarts == sqSub = <<>> /\ sqSub' # <<>>

SealedIn(g, T) == \E m \in 1..Len(T.results) : T.results[m] = g

\* C26, as stated: starting test(name, ...) seals the previous current group:
\* the group that was current is moved to the completed list (of the Tester or
\* of the temporary Tester) and a new group named from the label is opened.
C26_StartSealsPrevious ==
    [][TestStarts =>
        /\ \/ SealedIn(sq.currentTestResult[1], sq')
           \/ SealedIn(TestResult(DefaultName), sqSub'[1].tester)
        /\ sqSub'[1].tester.currentTestResult = <<TestResult(sqSub'[1].name)>>]_vars


(***************************************************************************)
(* PROPERTIES of the report and of the groups, checked under SpecSeq.      *)
(***************************************************************************)
IsOutcome(p) == p.type = "result"

\* The items of a report, from the first line to the last.
RECURSIVE ReportItems(_)
ReportItems(report) ==
    IF report = <<>> THEN <<>> ELSE Head(report).items \o ReportItems(Tail(report))

\* The Outcomes the calls of a log produced, in the order of the calls; a
\* test() gives the Outcomes of the group it added.
RECURSIVE OutcomesInCallOrder(_)
OutcomesInCallOrder(log) ==
    IF log = <<>> THEN <<>>
    ELSE LET c == Head(log)
             made == IF c.op # "test" THEN c.appended
                     ELSE IF c.sealed = <<>> THEN <<>>
                     ELSE c.sealed[1].printables
         IN  SelectSeq(made, IsOutcome) \o OutcomesInCallOrder(Tail(log))

\* C27, as stated: in the report printResults produces after a sequence of
\* calls of one thread, ungrouped assertions and delegated tests mixed, the
\* Outcomes appear in the order of the calls that produced them (and within a
\* group in the order they were added).
C27_ReportInCallOrder ==
    sqSub = <<>> =>
        SelectSeq(ReportItems(printResults(sq, "BOTH")), IsOutcome) = OutcomesInCallOrder(sqCalls)


\* results as it was is the beginning of results as it is.
Kept(before, after) ==
    /\ Len(after) >= Len(before)
    /\ SubSeq(after, 1, Len(before)) = before

C29_EmptySealedGroupDidNotFinish ==
    \A n \in 1..Len(sq.results) :
        ResultItems(sq.results[n]) = {} => sq.results[n].status = "DNF"

\* The call this step added to the log of the thread / of the running callable.
LastCall(log) == log[Len(log)]

StatusOf(T) == T.currentTestResult[1].status

\* C30: recording Outcomes never changes a group's status; a group keeps the
\* status SUCCESS however many failing Outcomes it holds.  The status of the
\* current group changes only through a call of setStatus, through the
\* THROW_ON_FAIL path of testOne, or through an exception caught by test()
\* around its callable.
C30_StatusOnlySetExplicitly ==
    [][/\ StatusOf(sq') # StatusOf(sq) =>
            /\ Len(sqCalls') = Len(sqCalls) + 1
            /\ LET c == LastCall(sqCalls')
               IN  \/ c.op = "setStatus"
                   \/ c.op = "testOne" /\ ThrowOnFailSet(c) /\ c.threw
       /\ (/\ sqSub # <<>> /\ sqSub' # <<>>
           /\ sqSub[1].pc = "callable"
           /\ StatusOf(sqSub'[1].tester) # StatusOf(sqSub[1].tester)) =>
            \/ sqSub'[1].raised
            \/ /\ Len(sqSub'[1].log) = Len(sqSub[1].log) + 1
               /\ LastCall(sqSub'[1].log).op = "setStatus"]_vars

\* The current group holds two Outcomes, both failing, and its status is SUCCESS.
C30_TwoFailuresStatusSuccess ==
    /\ sqSub = <<>>
    /\ Counts(sq) = <<0, 2>>
    /\ Cardinality(ResultItems(sq.currentTestResult[1])) = 2
    /\ StatusOf(sq) = "SUCCESS"


(***************************************************************************)
(* PROPERTIES of the locks, checked under SpecShared.                      *)
(***************************************************************************)
\* Thread t is inside a write to the items, counters or status of the current
\* group: between reading the place and writing it.
InGroupMutation(t) == pc[t] \in {"addStore", "addCount", "msgStore", "statusStore"}

\* Thread t is inside a call and its next step accesses settingsMap.
InSettingsAccess(t) == pc[t] # "idle" /\ KeyAt(t) # "none"

\* C23, as stated: every mutation of the current group's items, counters or
\* status made through the Tester (recording an Outcome, addMessage, setStatus)
\* is performed while holding testResultMutex, so that two threads on one
\* Tester are never inside such mutations at the same time.
C23_GroupMutationsUnderLock ==
    /\ \A t \in Threads : InGroupMutation(t) => testResultMutex = t
    /\ \A t, u \in Threads : (InGroupMutation(t) /\ InGroupMutation(u)) => t = u

\* C24, as stated: every access that can modify the settings table is
\* performed while holding settingsMutex, updateSetting and getSetting as well
\* as the settingsMap[...] lookups of testOne and addResult, so that no thread
\* is inside updateSetting while another accesses the table.
C24_SettingsAccessUnderLock ==
    /\ \A t \in Threads : InSettingsAccess(t) => settingsMutex = t
    /\ \A t, u \in Threads : (pc[t] = "updStore" /\ InSettingsAccess(u)) => t = u

Holds(t) == {m \in {"resultMutex", "testResultMutex", "settingsMutex"} :
                \/ m = "resultMutex" /\ resultMutex = t
                \/ m = "testResultMutex" /\ testResultMutex = t
                \/ m = "settingsMutex" /\ settingsMutex = t}

\* The callable of test(), or the method of testRange or testException, runs.
CallableRuns(t) == pc[t] \in {"callable", "invoke"}

\* C25: no lock of the Tester is held while a callable under test runs: in
\* test(), testRange and testException the thread that runs the callable holds
\* none of resultMutex, testResultMutex and settingsMutex, so a callable that
\* never returns keeps no other thread from recording Outcomes.
C25_NoLockAcrossCallable ==
    \A t \in Threads : CallableRuns(t) => Holds(t) = {}

\* The method of one thread's testRange runs while the other thread is inside
\* addResult, holding testResultMutex.
C25_RecordingBesideCallable ==
    \E t, u \in Threads :
        /\ pc[t] = "invoke" /\ loc[t].op = "testRange"
        /\ pc[u] = "addCount" /\ testResultMutex = u

(***************************************************************************)
(* PROPERTIES of the throw settings, checked under SpecSeq.                *)
(***************************************************************************)
\* The indices of a testRange call at which the callable under test raises.
RaisesIn(c) == {i \in c.in.from..c.in.to : c.in.fn[i].kind = "raise"}

FirstRaise(c) == CHOOSE i \in RaisesIn(c) : \A j \in RaisesIn(c) : i <= j

\* C31, as stated: with THROW_ON_ERROR set, an exception of the callable under
\* test during testRange is fatal to the run: the call ends by an exception,
\* no Outcome is produced for an index after the raising one, and the status
\* of the current group becomes FAILURE_EARLY.
C31_ErrorInRangeIsFatal ==
    \A c \in SeqMade :
        (c.op = "testRange" /\ c.settings["THROW_ON_ERROR"] = "true" /\ RaisesIn(c) # {})
        => /\ c.threw
           /\ Cardinality(Outcomes(c)) <= FirstRaise(c) - c.in.from + 1
           /\ c.status = "FAILURE_EARLY"

\* A testOne call under THROW_ON_ALIAS whose comparison raises the alias error.
AliasTriggered(c) ==
    /\ c.op = "testOne"
    /\ ~c.in.raises
    /\ c.settings["THROW_ON_ALIAS"] = "true"
    /\ isEqual(c.in.pair, TRUE).thrown

\* C32: when THROW_ON_ALIAS is set and the comparison of a testOne call raises
\* the alias error, the call ends by an exception and records nothing: it adds
\* no item to the current group and leaves numPassing and numTotal as they were.
C32_AliasErrorRecordsNothing ==
    \A c \in SeqMade :
        AliasTriggered(c) => c.threw /\ c.appended = <<>> /\ c.after = c.before

\* The alias error raised on a group that already holds an Outcome.
C32_AliasAfterOutcome ==
    \E n \in 2..Len(sqCalls) :
        AliasTriggered(sqCalls[n]) /\ sqCalls[n].threw /\ sqCalls[n].before[2] = 1

(***************************************************************************)
(* PROPERTIES of the report and of the export, checked under SpecSeq.      *)
(***************************************************************************)
\* The Testers of a state: the thread's, and the tempTester of a running test().
SeqTesters == {sq} \cup {sqSub[n].tester : n \in 1..Len(sqSub)}

\* The groups of a Tester as printResults goes through them.
GroupList(T) == T.results \o T.currentTestResult

\* An item is failing when it is a Result whose state is false; a message of
\* any type counts as passing.
FailingItem(p) == p.type = "result" /\ ~p.state

KeptUnder(filter, p) ==
    CASE filter = "BOTH"         -> TRUE
      [] filter = "FAILING_ONLY" -> FailingItem(p)
      [] filter = "PASSING_ONLY" -> ~FailingItem(p)

\* C33: the rendering of a group under a filter shows the name, numPassing,
\* numTotal and status of the group whatever the filter, and keeps, in the
\* order they were added, every item under BOTH, exactly the failing Results
\* under FAILING_ONLY and exactly the passing Results and the messages of
\* every type, FAIL included, under PASSING_ONLY.
C33_FilterKeepsByState ==
    \A T \in SeqTesters : \A filter \in TestFilters :
        LET report == printResults(T, filter)
            groups == GroupList(T)
        IN  /\ Len(report) = Len(groups)
            /\ \A n \in 1..Len(groups) :
                 /\ report[n].name = groups[n].name
                 /\ report[n].numPassing = groups[n].numPassing
                 /\ report[n].numTotal = groups[n].numTotal
                 /\ report[n].status = groups[n].status
                 /\ report[n].items =
                        SelectSeq(groups[n].printables, LAMBDA p : KeptUnder(filter, p))

\* printResults(false, FAILING_ONLY) was called on a group that holds a passing
\* Result, a failing Result and a message of type FAIL: the report shows the
\* failing Result alone under a heading of 1/2.
C33_FailNoteDropped ==
    \E n \in 1..Len(sqCalls) :
        /\ sqCalls[n].op = "printResults" /\ sqCalls[n].in = "FAILING_ONLY"
        /\ \E k \in 1..Len(sqCalls[n].ret) :
             LET shown == sqCalls[n].ret[k]
                 group == GroupList(sq)[k]
             IN  /\ shown.numPassing = 1 /\ shown.numTotal = 2
                 /\ Len(shown.items) = 1 /\ FailingItem(shown.items[1])
                 /\ \E j \in 1..Len(group.printables) :
                      /\ group.printables[j].type = "testMessage"
                      /\ group.printables[j].messageType = "FAIL"

\* s without its k-th element.
Without(s, k) == SubSeq(s, 1, k - 1) \o SubSeq(s, k + 1, Len(s))

\* C34, as stated: what getJSON returns holds every group of the Tester exactly
\* once, the completed groups in the order of results, each with its items in
\* the order they were added: leaving out the one entry of the current group
\* gives the completed groups from first to last.
C34_ExportListsEachGroupOnce ==
    (sqSub = <<>> /\ sqCalls # <<>> /\ LastCall(sqCalls).op = "getJSON")
    => LET export    == LastCall(sqCalls).ret
           completed == [n \in 1..Len(sq.results) |-> TestResultToJSON(sq.results[n])]
       IN  \E k \in 1..Len(export) :
               /\ export[k] = TestResultToJSON(sq.currentTestResult[1])
               /\ Without(export, k) = completed

(***************************************************************************)
(* PROPERTIES of escapeString, checked under SpecEscape.                   *)
(***************************************************************************)
\* Reading an escaped field back: a backslash and the character after it
\* stand for one character.
Unescaped(ch) == IF ch = "n" THEN "newline" ELSE ch

RECURSIVE Unescape(_)
Unescape(str) ==
    IF str = <<>> THEN <<>>
    ELSE IF Head(str) = "backslash" /\ Len(str) >= 2
    THEN <<Unescaped(str[2])>> \o Unescape(SubSeq(str, 3, Len(str)))
    ELSE <<Head(str)>> \o Unescape(Tail(str))

\* C35, as stated: for every string s, escapeString(s) keeps the characters of
\* s and escapes the special ones, so that un-escaping what it returns gives
\* back s.
C35_EscapeRoundTrip ==
    escPc = "done" => Unescape(escOut) = escStr

(***************************************************************************)
(* PROPERTIES of testFloat, checked under SpecSeq.                         *)
(***************************************************************************)
\* The bounds of a testFloat call: lowerBound and upperBound, both the range
\* when the call names one.
LowerBound(c) == c.in.limits[1]
UpperBound(c) == IF Len(c.in.limits) = 1 THEN c.in.limits[1] ELSE c.in.limits[2]

\* C36: testFloat appends exactly one Outcome to the current group, which
\* passes exactly when actual - lowerBound <= expected <= actual + upperBound
\* or actual equals expected; with a range, lowerBound = upperBound = range.
C36_FloatWithinBounds ==
    \A c \in SeqMade :
        c.op = "testFloat"
        => /\ ~c.threw
           /\ Len(c.appended) = 1
           /\ Outcomes(c) = {1}
           /\ c.appended[1].state <=>
                \/ /\ c.in.data - LowerBound(c) <= c.in.expected
                   /\ c.in.expected <= c.in.data + UpperBound(c)
                \/ c.in.data = c.in.expected

\* testFloat(1.0, 0.8, 0.0, 0.2) failed: expected is below actual by 0.2, which
\* the upper bound would allow and the lower bound does not.
C36_BelowLowerBound ==
    \E c \in SeqMade :
        /\ c.op = "testFloat" /\ c.in.limits = <<0, 2>> /\ c.in.expected < c.in.data
        /\ Outcomes(c) = {1} /\ ~c.appended[1].state

(***************************************************************************)
(* PROPERTIES of the settings of a delegated test, checked under SpecSeq.  *)
(***************************************************************************)
\* Two settings tables switch the same settings on.
SameSettings(m1, m2) == \A s \in TesterSettings : (m1[s] = "true") <=> (m2[s] = "true")

\* C37: a delegated test runs on a copy of the settings taken when test() is
\* called: the tempTester starts with the settings of the Tester, the first
\* call of the callable finds them in effect, and from the call of test() to
\* its end, updateSetting calls of the callable included, the settings, the
\* current group and the group counter of the Tester stay as they were.
C37_SettingsSnapshot ==
    [][/\ (sqSub = <<>> /\ sqSub' # <<>>)
            => SameSettings(sqSub'[1].tester.settingsMap, sq.settingsMap)
       /\ (sqSub # <<>> /\ sqSub' # <<>> /\ sqSub[1].log = <<>> /\ sqSub'[1].log # <<>>)
            => SameSettings(sqSub'[1].log[1].settings, sq.settingsMap)
       /\ (sqSub # <<>> \/ sqSub' # <<>>)
            => /\ sq'.settingsMap = sq.settingsMap
               /\ sq'.currentTestResult = sq.currentTestResult
               /\ sq'.groupNum = sq.groupNum]_vars

\* The callable switched THROW_ON_FAIL on and its failing testOne threw; after
\* test() the setting of the Tester is still off.
C37_CallableChangedItsCopy ==
    \E n \in 1..Len(sqCalls) :
        /\ sqCalls[n].op = "test"
        /\ Len(sqCalls[n].issued) = 2
        /\ sqCalls[n].issued[1].op = "updateSetting"
        /\ sqCalls[n].issued[1].in.newSetting
        /\ sqCalls[n].issued[2].op = "testOne" /\ sqCalls[n].issued[2].threw
        /\ sqCalls[n].issued[2].settings["THROW_ON_FAIL"] = "true"
        /\ sq.settingsMap["THROW_ON_FAIL"] # "true"

(***************************************************************************)
(* PROPERTIES of the group counter, checked under Spec.                    *)
(***************************************************************************)
\* The Results the threads' testOne calls put into the current group of the
\* shared Tester, each built with the number its call took from
\* getNextGroupNum.
SharedOutcomes ==
    LET items == tester.currentTestResult[1].printables
    IN  {items[k] : k \in {n \in 1..Len(items) : items[n].type = "result"}}

\* C38, as stated: when several threads call testOne on one shared Tester, no
\* two calls obtain the same group number from getNextGroupNum, whatever the
\* interleaving of the read and the write of the counter.
C38_GroupNumbersUnique ==
    \A r1, r2 \in SharedOutcomes :
        r1.message.at # r2.message.at => r1.groupNum # r2.groupNum

(***************************************************************************)
(* PROPERTIES of the mutexes, checked under SpecFair.                      *)
(***************************************************************************)
\* Thread t is inside an operation on the shared Tester.
InOperation(t) == pc[t] \notin {"idle", "aborted"}

\* The operation of thread t is over; "aborted": the process has died of a
\* data race, and every operation with it.
OperationOver(t) == pc[t] \in {"idle", "aborted"}

C40_SecondRunReturnsItsOwn ==
    (rngPc = "returned" /\ rngFirst # <<>>)
    => Len(rngRet) = (IF rng.from > rng.to THEN 0 ELSE rng.to - rng.from + 1)

=============================================================================
